---- MODULE Spec2Model ----
(***************************************************************************)
(* vds-slice: the request pipeline of the api package.                     *)
(*                                                                         *)
(* A request is parsed by its endpoint handler, then metadata() or         *)
(* makeDataRequest() runs: MakeVdsConnection, request.hash(), Cache.Get,   *)
(* conn.IsAuthorizedToRead(), core.NewDSHandle, request.execute,           *)
(* Cache.Set, writeResponse, and the deferred handle.Close().              *)
(*                                                                         *)
(* Every gin handler runs in its own goroutine; the Cache, the storage     *)
(* account's authorization state and the datasets are what they share.     *)
(***************************************************************************)
EXTENDS Integers, Sequences, FiniteSets, TLC

VARIABLES
    cache,       \* Endpoint.Cache: sequence of [key, entry], least recently used first
    authorized,  \* the <<vds, sas>> pairs the storage layer currently lets read
    proc,        \* per worker goroutine: the gin context and the handler's locals
    started,     \* number of requests accepted so far
    metrics,     \* the goroutines NewGinMiddleware has started and not finished,
                 \* and what the registry has observed
    pair         \* the inputs of a function under check and what it gives for them:
                 \* two requests and their hash/execute (SpecHash), a context and
                 \* an error and their abortOnError (SpecAbort)

vars == <<cache, authorized, proc, started, metrics, pair>>

(***************************************************************************)
(* Bounds of the model.                                                    *)
(***************************************************************************)
MaxRequests == 3
CacheCapacity == 3

Workers == {"w1", "w2"}

(***************************************************************************)
(* Tokens are sequences of one-character strings, so that strings.ToLower  *)
(* is a computation on characters.                                         *)
(***************************************************************************)
UpperToLower ==
    ("I" :> "i") @@ ("J" :> "j") @@ ("K" :> "k") @@ ("C" :> "c") @@
    ("D" :> "d") @@ ("P" :> "p") @@ ("L" :> "l") @@ ("X" :> "x") @@
    ("U" :> "u")

ToLowerChar(c) == IF c \in DOMAIN UpperToLower THEN UpperToLower[c] ELSE c

ToLower(token) == [i \in DOMAIN token |-> ToLowerChar(token[i])]

\* core.GetAxis: the direction tokens it knows (all lower case)
ValidDirections ==
    { <<"i">>, <<"j">>, <<"k">>,
      <<"i","n","l","i","n","e">>,
      <<"c","r","o","s","s","l","i","n","e">>,
      <<"d","e","p","t","h">>, <<"t","i","m","e">>,
      <<"s","a","m","p","l","e">> }

\* core.GetCoordinateSystem: the coordinate system tokens it knows
ValidCoordinateSystems ==
    { <<"i","j">>, <<"i","l","x","l">>, <<"c","d","p">> }

\* core.GetInterpolationMethod: the interpolation tokens it knows
\* (a request without an interpolation gets the default one)
ValidInterpolations ==
    { "", "nearest", "linear", "cubic", "angular", "triangular" }

(***************************************************************************)
(* Errors: core.InvalidArgument, core.InternalError, and nil.              *)
(***************************************************************************)
Nil == [kind |-> "nil", msg |-> "", args |-> <<>>]
NewInvalidArgument(msg) == [kind |-> "InvalidArgument", msg |-> msg, args |-> <<>>]
NewInternalError(msg) == [kind |-> "InternalError", msg |-> msg, args |-> <<>>]

\* fmt.Sprintf: the values a message is formatted with
Sprintf(err, args) == [err EXCEPT !.args = args]

httpStatusCodeBadRequest(err) ==
    CASE err.kind = "InvalidArgument" -> 400
      [] err.kind = "InternalError" -> 500
      [] OTHER -> 400

httpStatusCode(err) ==
    CASE err.kind = "InvalidArgument" -> 400
      [] err.kind = "InternalError" -> 500
      [] OTHER -> 500


(***************************************************************************)
(* Requests.  One record type for all variants; a field a variant does not *)
(* have keeps its zero value, as in the Go structs.  hasQuery, jsonOK,      *)
(* structOK and sasOK describe the wire form the handler parses.           *)
(***************************************************************************)
Vds == {"well_known", "unknown", "bad_url"}
ExistingVds == {"well_known"}
Sas == {"sasA", "sasB"}
AuthPairs == {<<v, s>> : v \in ExistingVds, s \in Sas}

ValidLinenos == {0, 1}

BaseRequest ==
    [kind |-> "slice", method |-> "POST",
     hasQuery |-> TRUE, jsonOK |-> TRUE, structOK |-> TRUE, sasOK |-> TRUE,
     serializable |-> TRUE,
     vds |-> "well_known", sas |-> "sasA",
     direction |-> <<"i">>, lineno |-> 0, bounds |-> <<>>,
     coordinateSystem |-> <<>>, coordinates |-> <<>>,
     interpolation |-> "", fillValue |-> 0,
     surface |-> <<>>, secondarySurface |-> <<>>,
     above |-> 0, below |-> 0, stepsize |-> 0,
     attributes |-> <<>>]

BaseFence ==
    [BaseRequest EXCEPT !.kind = "fence", !.direction = <<>>,
        !.coordinateSystem = <<"i","j">>,
        !.coordinates = << <<0, 0>>, <<1, 1>> >>,
        !.interpolation = "linear"]

BaseMetadata == [BaseRequest EXCEPT !.kind = "metadata", !.direction = <<>>]

\* request.credentials()
credentials(request) == <<request.vds, request.sas>>

\* request.toString(): the request as logged, without the sas token
toString(request) == [request EXCEPT !.sas = ""]

(***************************************************************************)
(* Normalizer: parseGetRequest, parsePostRequest.                          *)
(***************************************************************************)
\* v.NormalizeConnection(): resolves the sas token, InvalidArgument without one
NormalizeConnection(request) ==
    IF request.sasOK THEN Nil
    ELSE NewInvalidArgument("No valid Sas token is found")

MissingQuery ==
    "GET request to specified endpoint requires a 'query' parameter"

InvalidQuery ==
    "Please ensure that the supplied query is valid: invalid character"

InvalidJson == "invalid character"

InvalidFields == "Error:Field validation"

parseGetRequestEmptyQuery(request) ==
    IF ~request.hasQuery \/ ~request.jsonOK
    THEN NewInvalidArgument(InvalidQuery)
    ELSE IF ~request.structOK
    THEN NewInvalidArgument(InvalidFields)
    ELSE NormalizeConnection(request)

\* parseGetRequest: ctx.GetQuery("query"), json.Unmarshal,
\* binding.Validator.ValidateStruct, v.NormalizeConnection()
parseGetRequest(request) ==
    IF ~request.hasQuery
    THEN NewInvalidArgument(MissingQuery)
    ELSE IF ~request.jsonOK
    THEN NewInvalidArgument(InvalidQuery)
    ELSE IF ~request.structOK
    THEN NewInvalidArgument(InvalidFields)
    ELSE NormalizeConnection(request)

parsePostRequestNormalizeFirst(request) ==
    IF NormalizeConnection(request) # Nil
    THEN NormalizeConnection(request)
    ELSE IF ~request.jsonOK
    THEN NewInvalidArgument(InvalidJson)
    ELSE IF ~request.structOK
    THEN NewInvalidArgument(InvalidFields)
    ELSE Nil

\* parsePostRequest: ctx.ShouldBind(v) (decode, then validate the fields),
\* v.NormalizeConnection()
parsePostRequest(request) ==
    IF ~request.jsonOK
    THEN NewInvalidArgument(InvalidJson)
    ELSE IF ~request.structOK
    THEN NewInvalidArgument(InvalidFields)
    ELSE NormalizeConnection(request)

parseRequest(request) ==
    IF request.method = "GET" THEN parseGetRequest(request)
    ELSE parsePostRequest(request)

(***************************************************************************)
(* Connection and engine handle (package core).                            *)
(***************************************************************************)
NoConn == [vds |-> "", sas |-> ""]

\* e.MakeVdsConnection(vds, sas): no dataset I/O; fails on a locator it cannot use
MakeVdsConnection(cred) ==
    IF cred[1] = "bad_url"
    THEN [conn |-> NoConn, err |-> NewInvalidArgument("unsupported url")]
    ELSE [conn |-> [vds |-> cred[1], sas |-> cred[2]], err |-> Nil]

\* conn.IsAuthorizedToRead(): can this caller read the dataset right now
IsAuthorizedToRead(conn, auth) == <<conn.vds, conn.sas>> \in auth

\* core.NewDSHandle(conn): opens the dataset with the connection's credentials
NewDSHandle(conn, auth) ==
    IF <<conn.vds, conn.sas>> \in auth
    THEN [handle |-> [vds |-> conn.vds], err |-> Nil]
    ELSE [handle |-> [vds |-> ""], err |-> NewInternalError("Could not open VDS")]

(***************************************************************************)
(* Fingerprinter: request.hash().                                          *)
(***************************************************************************)
NoKey == [BaseRequest EXCEPT !.kind = ""]

\* the canonical, credential-stripped form of the request that is digested
Canonical(request) ==
    [request EXCEPT
        !.sas = "", !.method = "",
        !.hasQuery = TRUE, !.jsonOK = TRUE, !.structOK = TRUE, !.sasOK = TRUE,
        !.direction = ToLower(request.direction),
        !.coordinateSystem = ToLower(request.coordinateSystem)]

hash(request) ==
    IF request.serializable
    THEN [key |-> Canonical(request), err |-> Nil]
    ELSE [key |-> NoKey, err |-> NewInternalError("hash failed")]

(***************************************************************************)
(* ComputeCache (package cache): Get, Set, NewCacheEntry.  Entries are     *)
(* kept least recently used first; Set evicts from the front until the new *)
(* entry fits the budget.                                                  *)
(***************************************************************************)
NoEntry == [metadata |-> <<>>, data |-> <<>>]

NewCacheEntry(data, metadata) == [metadata |-> metadata, data |-> data]

\* the cost of an entry: its metadata part and its data blocks
EntrySize(entry) == 1 + Len(entry.data)

RECURSIVE CacheSize(_)
CacheSize(c) ==
    IF c = <<>> THEN 0 ELSE EntrySize(Head(c).entry) + CacheSize(Tail(c))

CacheKeys(c) == {c[i].key : i \in DOMAIN c}

CacheIndex(c, key) == CHOOSE i \in DOMAIN c : c[i].key = key

CacheEntryOf(c, key) == c[CacheIndex(c, key)].entry

CacheRemove(c, key) == SelectSeq(c, LAMBDA x : x.key # key)

\* Cache.Get(key): the entry and whether it was found; a hit refreshes recency
CacheGet(c, key) ==
    IF key \in CacheKeys(c)
    THEN [entry |-> CacheEntryOf(c, key), hit |-> TRUE,
          cache |-> Append(CacheRemove(c, key), c[CacheIndex(c, key)])]
    ELSE [entry |-> NoEntry, hit |-> FALSE, cache |-> c]

RECURSIVE Evict(_, _)
Evict(c, need) ==
    IF c = <<>> \/ CacheSize(c) + need <= CacheCapacity THEN c
    ELSE Evict(Tail(c), need)

\* Cache.Set(key, entry): insert or overwrite, evicting by recency; an entry
\* that is larger than the whole budget is not kept
CacheSet(c, key, entry) ==
    IF EntrySize(entry) > CacheCapacity THEN CacheRemove(c, key)
    ELSE Append(Evict(CacheRemove(c, key), EntrySize(entry)),
                [key |-> key, entry |-> entry])

(***************************************************************************)
(* The engine behind core.DSHandle.  It is opaque to the api package: a    *)
(* result is the record of what the engine was asked, so that two results  *)
(* are equal exactly when the engine was asked the same thing.             *)
(***************************************************************************)
EngineZero ==
    [vds |-> "", axis |-> <<>>, lineno |-> 0, bounds |-> <<>>,
     coordinateSystem |-> <<>>, coordinates |-> <<>>,
     interpolation |-> "", fillValue |-> 0,
     surface |-> <<>>, secondarySurface |-> <<>>,
     above |-> 0, below |-> 0, stepsize |-> 0, attribute |-> ""]

Result(what, asked) == [what |-> what, asked |-> asked]

Failed(err) == [value |-> <<>>, err |-> err]
Ok(value) == [value |-> value, err |-> Nil]

InvalidDirection ==
    "invalid direction, valid options are: i, j, k, inline, crossline, depth, time, sample"

\* core.GetAxis(direction)
GetAxis(direction) ==
    IF direction \in ValidDirections THEN Ok(direction)
    ELSE Failed(NewInvalidArgument(InvalidDirection))

\* core.GetCoordinateSystem(coordinateSystem)
GetCoordinateSystem(coordinateSystem) ==
    IF coordinateSystem \in ValidCoordinateSystems THEN Ok(coordinateSystem)
    ELSE Failed(NewInvalidArgument("coordinate system not recognized"))

\* core.GetInterpolationMethod(interpolation)
GetInterpolationMethod(interpolation) ==
    IF interpolation \in ValidInterpolations THEN Ok(<<interpolation>>)
    ELSE Failed(NewInvalidArgument("invalid interpolation method"))

\* handle.GetMetadata()
GetMetadata(handle) ==
    Ok(<<Result("metadata", [EngineZero EXCEPT !.vds = handle.vds])>>)

SliceAsked(handle, lineno, axis, bounds) ==
    [EngineZero EXCEPT !.vds = handle.vds, !.lineno = lineno,
                       !.axis = axis, !.bounds = bounds]

InvalidLineno == "Invalid lineno: %d, valid range: [0:2:1]"

\* the engine's error for a line number outside the axis
LinenoError(lineno) == Sprintf(NewInvalidArgument(InvalidLineno), <<lineno>>)

\* handle.GetSliceMetadata(lineno, axis, bounds)
GetSliceMetadata(handle, lineno, axis, bounds) ==
    IF lineno \in ValidLinenos
    THEN Ok(<<Result("slice-metadata", SliceAsked(handle, lineno, axis, bounds))>>)
    ELSE Failed(LinenoError(lineno))

\* handle.GetSlice(lineno, axis, bounds)
GetSlice(handle, lineno, axis, bounds) ==
    IF lineno \in ValidLinenos
    THEN Ok(Result("slice", SliceAsked(handle, lineno, axis, bounds)))
    ELSE Failed(LinenoError(lineno))

\* handle.GetFenceMetadata(coordinates)
GetFenceMetadata(handle, coordinates) ==
    Ok(<<Result("fence-metadata",
                [EngineZero EXCEPT !.vds = handle.vds,
                                   !.coordinates = coordinates])>>)

InvalidCoordinate == "invalid coordinate %v at position %d, expected [x y] pair"

\* the first tuple that is not a pair
Offending(coordinates) ==
    CHOOSE i \in DOMAIN coordinates :
        /\ Len(coordinates[i]) # 2
        /\ \A j \in 1..(i - 1) : Len(coordinates[j]) = 2

\* handle.GetFence(coordinateSystem, coordinates, interpolation, fillValue)
GetFence(handle, coordinateSystem, coordinates, interpolation, fillValue) ==
    IF \E i \in DOMAIN coordinates : Len(coordinates[i]) # 2
    THEN Failed(Sprintf(NewInvalidArgument(InvalidCoordinate),
                        <<coordinates[Offending(coordinates)],
                          Offending(coordinates) - 1>>))
    ELSE Ok(Result("fence",
                   [EngineZero EXCEPT !.vds = handle.vds,
                                      !.coordinateSystem = coordinateSystem,
                                      !.coordinates = coordinates,
                                      !.interpolation = interpolation[1],
                                      !.fillValue = fillValue]))

(***************************************************************************)
(* Executor: request.execute(handle) of each variant.                      *)
(***************************************************************************)
\* what execute returns, and the operations of the handle it has invoked
ExecFailed(err, ops) ==
    [data |-> <<>>, metadata |-> <<>>, err |-> err, ops |-> ops]
ExecOk(data, metadata, ops) ==
    [data |-> data, metadata |-> metadata, err |-> Nil, ops |-> ops]

sliceAxisRaw(request) == GetAxis(request.direction)

\* SliceRequest.execute: core.GetAxis(strings.ToLower(request.Direction))
sliceAxis(request) == GetAxis(ToLower(request.direction))

SliceExecuteNilData(request, handle) ==
    LET axis == sliceAxis(request) IN
    IF axis.err # Nil THEN ExecFailed(axis.err, <<>>) ELSE
    LET metadata == GetSliceMetadata(handle, request.lineno, axis.value,
                                     request.bounds) IN
    IF metadata.err # Nil
    THEN ExecFailed(metadata.err, <<"GetSliceMetadata">>) ELSE
    LET res == GetSlice(handle, request.lineno, axis.value, request.bounds) IN
    IF res.err # Nil THEN ExecFailed(res.err,
               <<"GetSliceMetadata", "GetSlice">>) ELSE
    ExecOk(<<>>, metadata.value,
           <<"GetSliceMetadata", "GetSlice">>)

\* SliceRequest.execute
SliceExecute(request, handle) ==
    LET axis == sliceAxis(request) IN
    IF axis.err # Nil THEN ExecFailed(axis.err, <<>>) ELSE
    LET metadata == GetSliceMetadata(handle, request.lineno, axis.value,
                                     request.bounds) IN
    IF metadata.err # Nil
    THEN ExecFailed(metadata.err, <<"GetSliceMetadata">>) ELSE
    LET res == GetSlice(handle, request.lineno, axis.value, request.bounds) IN
    IF res.err # Nil THEN ExecFailed(res.err,
               <<"GetSliceMetadata", "GetSlice">>) ELSE
    ExecOk(<<res.value>>, metadata.value,
           <<"GetSliceMetadata", "GetSlice">>)

\* FenceRequest.execute: core.GetCoordinateSystem(strings.ToLower(...))
fenceCoordinateSystem(request) ==
    GetCoordinateSystem(ToLower(request.coordinateSystem))

FenceExecuteUnchecked(request, handle) ==
    LET coordinateSystem == fenceCoordinateSystem(request) IN
    IF coordinateSystem.err # Nil
    THEN ExecFailed(coordinateSystem.err, <<>>) ELSE
    LET interpolation == GetInterpolationMethod(request.interpolation) IN
    IF interpolation.err # Nil THEN ExecFailed(interpolation.err, <<>>) ELSE
    LET metadata == GetFenceMetadata(handle, request.coordinates) IN
    IF metadata.err # Nil
    THEN ExecFailed(metadata.err, <<"GetFenceMetadata">>) ELSE
    LET res == GetFence(handle, coordinateSystem.value, request.coordinates,
                        interpolation.value, request.fillValue) IN
    ExecOk(<<res.value>>, metadata.value,
           <<"GetFenceMetadata", "GetFence">>)

\* FenceRequest.execute
FenceExecute(request, handle) ==
    LET coordinateSystem == fenceCoordinateSystem(request) IN
    IF coordinateSystem.err # Nil
    THEN ExecFailed(coordinateSystem.err, <<>>) ELSE
    LET interpolation == GetInterpolationMethod(request.interpolation) IN
    IF interpolation.err # Nil THEN ExecFailed(interpolation.err, <<>>) ELSE
    LET metadata == GetFenceMetadata(handle, request.coordinates) IN
    IF metadata.err # Nil
    THEN ExecFailed(metadata.err, <<"GetFenceMetadata">>) ELSE
    LET res == GetFence(handle, coordinateSystem.value, request.coordinates,
                        interpolation.value, request.fillValue) IN
    IF res.err # Nil THEN ExecFailed(res.err,
               <<"GetFenceMetadata", "GetFence">>) ELSE
    ExecOk(<<res.value>>, metadata.value,
           <<"GetFenceMetadata", "GetFence">>)

lowerBound == 0
upperBound == 250

validateVerticalWindowInclusive(above, below, stepSize) ==
    IF above < lowerBound \/ above > upperBound
    THEN NewInvalidArgument("'above' out of range")
    ELSE IF below < lowerBound \/ below > upperBound
    THEN NewInvalidArgument("'below' out of range")
    ELSE IF stepSize < lowerBound
    THEN NewInvalidArgument("'stepsize' out of range")
    ELSE Nil

\* validateVerticalWindow(above, below, stepSize)
validateVerticalWindow(above, below, stepSize) ==
    IF above < lowerBound \/ above >= upperBound
    THEN NewInvalidArgument("'above' out of range")
    ELSE IF below < lowerBound \/ below >= upperBound
    THEN NewInvalidArgument("'below' out of range")
    ELSE IF stepSize < lowerBound
    THEN NewInvalidArgument("'stepsize' out of range")
    ELSE Nil

\* handle.GetAttributeMetadata(values)
GetAttributeMetadata(handle, values) ==
    Ok(<<Result("attribute-metadata",
                [EngineZero EXCEPT !.vds = handle.vds, !.surface = values])>>)

\* handle.GetAttributesAlongSurface(...): one block per attribute, in order
GetAttributesAlongSurface(handle, surface, above, below, stepsize, attributes, interpolation) ==
    Ok([i \in DOMAIN attributes |->
          Result("attribute-along",
                 [EngineZero EXCEPT !.vds = handle.vds, !.surface = surface,
                                    !.above = above, !.below = below,
                                    !.stepsize = stepsize,
                                    !.attribute = attributes[i],
                                    !.interpolation = interpolation[1]])])

\* handle.GetAttributesBetweenSurfaces(...): the surfaces must have one shape
GetAttributesBetweenSurfaces(handle, primary, secondary, stepsize, attributes, interpolation) ==
    IF Len(primary) # Len(secondary)
    THEN Failed(NewInternalError("surfaces differ in shape"))
    ELSE Ok([i \in DOMAIN attributes |->
          Result("attribute-between",
                 [EngineZero EXCEPT !.vds = handle.vds, !.surface = primary,
                                    !.secondarySurface = secondary,
                                    !.stepsize = stepsize,
                                    !.attribute = attributes[i],
                                    !.interpolation = interpolation[1]])])

AlongExecuteMetadataFirst(request, handle) ==
    LET metadata == GetAttributeMetadata(handle, request.surface) IN
    IF metadata.err # Nil
    THEN ExecFailed(metadata.err, <<"GetAttributeMetadata">>) ELSE
    LET err == validateVerticalWindow(request.above, request.below,
                                      request.stepsize) IN
    IF err # Nil THEN ExecFailed(err, <<"GetAttributeMetadata">>) ELSE
    LET interpolation == GetInterpolationMethod(request.interpolation) IN
    IF interpolation.err # Nil
    THEN ExecFailed(interpolation.err, <<"GetAttributeMetadata">>) ELSE
    LET data == GetAttributesAlongSurface(handle, request.surface,
                    request.above, request.below, request.stepsize,
                    request.attributes, interpolation.value) IN
    IF data.err # Nil THEN ExecFailed(data.err,
               <<"GetAttributeMetadata", "GetAttributesAlongSurface">>) ELSE
    ExecOk(data.value, metadata.value,
           <<"GetAttributeMetadata", "GetAttributesAlongSurface">>)

\* AttributeAlongSurfaceRequest.execute
AlongExecute(request, handle) ==
    LET err == validateVerticalWindow(request.above, request.below,
                                      request.stepsize) IN
    IF err # Nil THEN ExecFailed(err, <<>>) ELSE
    LET interpolation == GetInterpolationMethod(request.interpolation) IN
    IF interpolation.err # Nil THEN ExecFailed(interpolation.err, <<>>) ELSE
    LET metadata == GetAttributeMetadata(handle, request.surface) IN
    IF metadata.err # Nil
    THEN ExecFailed(metadata.err, <<"GetAttributeMetadata">>) ELSE
    LET data == GetAttributesAlongSurface(handle, request.surface,
                    request.above, request.below, request.stepsize,
                    request.attributes, interpolation.value) IN
    IF data.err # Nil THEN ExecFailed(data.err,
               <<"GetAttributeMetadata", "GetAttributesAlongSurface">>) ELSE
    ExecOk(data.value, metadata.value,
           <<"GetAttributeMetadata", "GetAttributesAlongSurface">>)

\* AttributeBetweenSurfacesRequest.execute
BetweenExecute(request, handle) ==
    LET interpolation == GetInterpolationMethod(request.interpolation) IN
    IF interpolation.err # Nil THEN ExecFailed(interpolation.err, <<>>) ELSE
    LET metadata == GetAttributeMetadata(handle, request.surface) IN
    IF metadata.err # Nil
    THEN ExecFailed(metadata.err, <<"GetAttributeMetadata">>) ELSE
    LET data == GetAttributesBetweenSurfaces(handle, request.surface,
                    request.secondarySurface, request.stepsize,
                    request.attributes, interpolation.value) IN
    IF data.err # Nil THEN ExecFailed(data.err,
               <<"GetAttributeMetadata", "GetAttributesBetweenSurfaces">>) ELSE
    ExecOk(data.value, metadata.value,
           <<"GetAttributeMetadata", "GetAttributesBetweenSurfaces">>)

\* request.execute(handle), dispatched on the request's variant
execute(request, handle) ==
    CASE request.kind = "slice" -> SliceExecute(request, handle)
      [] request.kind = "fence" -> FenceExecute(request, handle)
      [] request.kind = "along" -> AlongExecute(request, handle)
      [] request.kind = "between" -> BetweenExecute(request, handle)

(***************************************************************************)
(* The requests the workers receive: the base requests in both casings and *)
(* with both credentials, and the base slice with one thing wrong.         *)
(***************************************************************************)
Requests ==
    { [BaseRequest EXCEPT !.sas = s, !.direction = d] :
        s \in Sas, d \in {<<"i">>, <<"I">>} }
    \cup { [BaseFence EXCEPT !.sas = s] : s \in Sas }
    \cup { [BaseMetadata EXCEPT !.vds = v] : v \in {"well_known", "unknown"} }
    \cup { [BaseRequest EXCEPT !.direction = <<"u">>],
           [BaseRequest EXCEPT !.lineno = 10],
           [BaseRequest EXCEPT !.vds = "unknown"],
           [BaseRequest EXCEPT !.vds = "bad_url"],
           [BaseRequest EXCEPT !.serializable = FALSE],
           [BaseRequest EXCEPT !.sasOK = FALSE],
           [BaseRequest EXCEPT !.structOK = FALSE],
           [BaseRequest EXCEPT !.method = "GET", !.jsonOK = FALSE],
           [BaseRequest EXCEPT !.method = "GET", !.hasQuery = FALSE] }

(***************************************************************************)
(* The gin context and the locals of a handler.                            *)
(***************************************************************************)
NoRequest == [BaseRequest EXCEPT !.kind = ""]

\* how often the handler has called each of these in the request; execute
\* stands for request.execute(handle), and for handle.GetMetadata() in metadata
NoCalls ==
    [MakeVdsConnection |-> 0, hash |-> 0, NewDSHandle |-> 0, execute |-> 0]

Idle ==
    [pc |-> "idle", request |-> NoRequest, logged |-> NoRequest,
     conn |-> NoConn, cacheKey |-> NoKey,
     cacheEntry |-> NoEntry, hit |-> FALSE, authz |-> "unasked",
     handle |-> "none", opened |-> [vds |-> ""],
     data |-> <<>>, metadata |-> <<>>, err |-> Nil,
     status |-> 0, body |-> <<>>, cachehit |-> FALSE, sets |-> 0,
     writes |-> 0, closes |-> 0, calls |-> NoCalls, aborts |-> 0,
     ops |-> <<>>, gets |-> 0]

Called(p, f) == [p EXCEPT !.calls[f] = @ + 1]

\* abortOnError: nil leaves the context alone and returns false; any other
\* error is ctx.AbortWithError(httpStatusCode(err), err) and returns true
abortOnError(p, err) ==
    IF err = Nil THEN [ctx |-> p, aborted |-> FALSE]
    ELSE [ctx |-> [p EXCEPT !.pc = "done", !.status = httpStatusCode(err),
                            !.err = err, !.aborts = @ + 1],
          aborted |-> TRUE]

\* writeResponse(ctx, metadata, data): a 200 with the metadata part, then the blocks
writeResponse(p, metadata, data) ==
    [p EXCEPT !.pc = "done", !.status = 200, !.body = @ \o metadata \o data,
              !.writes = @ + 1]

prepareRequestLoggingRaw(p, request) == [p EXCEPT !.logged = request]

\* prepareRequestLogging: ctx.Set("request", request.toString())
prepareRequestLogging(p, request) == [p EXCEPT !.logged = toString(request)]

\* the deferred handle.Close()
Close(p) == [p EXCEPT !.handle = "closed", !.closes = @ + 1]

(***************************************************************************)
(* The handlers.  Parsing, logging, MakeVdsConnection and hash touch only  *)
(* the request, so they are one step; every access to the cache, to the    *)
(* authorization state and to the engine is a step of its own.             *)
(***************************************************************************)
makeCacheKeyWithoutVds(request) ==
    [hash(request) EXCEPT !.key.vds = ""]

makeCacheKeyWithCredentials(request) ==
    [hash(request) EXCEPT !.key.sas = request.sas]

makeCacheKeyWithoutLineno(request) ==
    [hash(request) EXCEPT !.key.lineno = 0]

\* makeDataRequest: cacheKey, err := request.hash()
makeCacheKey(request) == hash(request)

makeDataRequestBeginUnchecked(p, request) ==
    LET logged == Called(prepareRequestLogging(p, request), "MakeVdsConnection")
        c == MakeVdsConnection(credentials(request))
        h == makeCacheKey(request)
        connected == Called([logged EXCEPT !.conn = c.conn], "hash")
    IN  [connected EXCEPT !.cacheKey = h.key, !.pc = "get"]

\* makeDataRequest, up to the cache lookup
makeDataRequestBegin(p, request) ==
    LET logged == Called(prepareRequestLogging(p, request), "MakeVdsConnection")
        c == MakeVdsConnection(credentials(request))
    IN  IF abortOnError(logged, c.err).aborted
        THEN abortOnError(logged, c.err).ctx ELSE
        LET h == makeCacheKey(request)
            connected == Called([logged EXCEPT !.conn = c.conn], "hash")
        IN  IF abortOnError(connected, h.err).aborted
            THEN abortOnError(connected, h.err).ctx
            ELSE [connected EXCEPT !.cacheKey = h.key, !.pc = "get"]

\* metadata, up to core.NewDSHandle
metadataBegin(p, request) ==
    LET logged == Called(prepareRequestLogging(p, request), "MakeVdsConnection")
        c == MakeVdsConnection(<<request.vds, request.sas>>)
    IN  IF abortOnError(logged, c.err).aborted
        THEN abortOnError(logged, c.err).ctx
        ELSE [logged EXCEPT !.conn = c.conn, !.pc = "open"]

endpointCachingMetadata(request) ==
    LET p == [Idle EXCEPT !.request = request]
        err == parseRequest(request)
    IN  IF abortOnError(p, err).aborted
        THEN abortOnError(p, err).ctx
        ELSE makeDataRequestBegin(p, request)

endpointIgnoringParseError(request) ==
    LET p == [Idle EXCEPT !.request = request]
    IN  IF request.kind = "metadata" THEN metadataBegin(p, request)
        ELSE makeDataRequestBegin(p, request)

\* MetadataGet ... AttributesBetweenSurfacesPost: parse, then the endpoint
endpoint(request) ==
    LET p == [Idle EXCEPT !.request = request]
        err == parseRequest(request)
    IN  IF abortOnError(p, err).aborted
        THEN abortOnError(p, err).ctx
        ELSE IF request.kind = "metadata"
             THEN metadataBegin(p, request)
             ELSE makeDataRequestBegin(p, request)

Receive(w) ==
    /\ proc[w].pc = "idle"
    /\ started < MaxRequests
    /\ \E request \in Requests :
          proc' = [proc EXCEPT ![w] = endpoint(request)]
    /\ started' = started + 1
    /\ UNCHANGED <<cache, authorized, metrics, pair>>

GetAnyKey(w) ==
    /\ proc[w].pc = "get"
    /\ LET key == IF cache = <<>> THEN proc[w].cacheKey ELSE cache[1].key
           got == CacheGet(cache, key)
       IN  /\ cache' = got.cache
           /\ proc' = [proc EXCEPT ![w] =
                  [@ EXCEPT !.cacheEntry = got.entry, !.hit = got.hit,
                            !.gets = @ + 1,
                            !.pc = IF got.hit THEN "auth" ELSE "open"]]
    /\ UNCHANGED <<authorized, started, metrics, pair>>

GetThenAsk(w) ==
    /\ proc[w].pc = "get"
    /\ LET got == CacheGet(cache, proc[w].cacheKey)
       IN  /\ cache' = got.cache
           /\ proc' = [proc EXCEPT ![w] =
                  [@ EXCEPT !.cacheEntry = got.entry, !.hit = got.hit,
                            !.gets = @ + 1, !.pc = "auth"]]
    /\ UNCHANGED <<authorized, started, metrics, pair>>

\* makeDataRequest: cacheEntry, hit := e.Cache.Get(cacheKey)
Get(w) ==
    /\ proc[w].pc = "get"
    /\ LET got == CacheGet(cache, proc[w].cacheKey)
       IN  /\ cache' = got.cache
           /\ proc' = [proc EXCEPT ![w] =
                  [@ EXCEPT !.cacheEntry = got.entry, !.hit = got.hit,
                            !.gets = @ + 1,
                            !.pc = IF got.hit THEN "auth" ELSE "open"]]
    /\ UNCHANGED <<authorized, started, metrics, pair>>

serveFromCacheOpening(p) ==
    writeResponse(Close([Called(p, "NewDSHandle") EXCEPT !.cachehit = TRUE]),
                  p.cacheEntry.metadata, p.cacheEntry.data)

serveFromCacheUnset(p) ==
    writeResponse(p, p.cacheEntry.metadata, p.cacheEntry.data)

serveFromCacheLocals(p) ==
    writeResponse([p EXCEPT !.cachehit = TRUE], p.cacheEntry.metadata, p.data)

serveFromCacheSwapped(p) ==
    writeResponse([p EXCEPT !.cachehit = TRUE],
                  p.cacheEntry.data, p.cacheEntry.metadata)

\* the hit branch: ctx.Set("cache-hit", true); writeResponse(entry); return
serveFromCache(p) ==
    writeResponse([p EXCEPT !.cachehit = TRUE],
                  p.cacheEntry.metadata, p.cacheEntry.data)

hitBranchUnchecked(p, authorizedToRead) == serveFromCache(p)

hitBranchUnmarked(p, authorizedToRead) ==
    IF authorizedToRead THEN serveFromCache(p)
    ELSE writeResponse(p, p.cacheEntry.metadata, p.cacheEntry.data)

hitBranchNeverServes(p, authorizedToRead) == [p EXCEPT !.pc = "open"]

hitBranchNegated(p, authorizedToRead) ==
    IF ~authorizedToRead THEN serveFromCache(p) ELSE [p EXCEPT !.pc = "open"]

\* makeDataRequest: if hit && conn.IsAuthorizedToRead() { ... return }
hitBranch(p, authorizedToRead) ==
    IF authorizedToRead THEN serveFromCache(p) ELSE [p EXCEPT !.pc = "open"]

Auth(w) ==
    /\ proc[w].pc = "auth"
    /\ LET authorizedToRead == IsAuthorizedToRead(proc[w].conn, authorized)
           asked == [proc[w] EXCEPT
                        !.authz = IF authorizedToRead THEN "yes" ELSE "no"]
       IN  proc' = [proc EXCEPT ![w] = hitBranch(asked, authorizedToRead)]
    /\ UNCHANGED <<cache, authorized, started, metrics, pair>>

openHandleRetry(q, auth) ==
    LET p == Called(q, "NewDSHandle")
        h == NewDSHandle(p.conn, auth)
    IN  IF h.err # Nil
        THEN abortOnError(Called(p, "NewDSHandle"),
                          NewDSHandle(p.conn, auth).err).ctx
        ELSE [p EXCEPT !.handle = "open", !.opened = h.handle, !.pc = "exec"]

openHandleUnchecked(q, auth) ==
    LET p == Called(q, "NewDSHandle")
        h == NewDSHandle(p.conn, auth)
    IN  [p EXCEPT !.handle = "open", !.opened = h.handle, !.pc = "exec"]

\* metadata, makeDataRequest: handle, err := core.NewDSHandle(conn); abortOnError
openHandle(q, auth) ==
    LET p == Called(q, "NewDSHandle")
        h == NewDSHandle(p.conn, auth)
    IN  IF abortOnError(p, h.err).aborted
        THEN abortOnError(p, h.err).ctx
        ELSE [p EXCEPT !.handle = "open", !.opened = h.handle, !.pc = "exec"]

Open(w) ==
    /\ proc[w].pc = "open"
    /\ proc' = [proc EXCEPT ![w] = openHandle(@, authorized)]
    /\ UNCHANGED <<cache, authorized, started, metrics, pair>>

\* metadata: handle.GetMetadata(); ctx.Data(200, ...); deferred Close
metadataEnd(q) ==
    LET p == [Called(q, "execute") EXCEPT !.ops = <<"GetMetadata">>]
        buffer == GetMetadata(p.opened)
    IN  IF abortOnError(p, buffer.err).aborted
        THEN Close(abortOnError(p, buffer.err).ctx)
        ELSE Close([p EXCEPT !.pc = "done", !.status = 200,
                             !.body = buffer.value])

makeDataRequestExecuteNoReturn(q) ==
    LET res == execute(q.request, q.opened)
        p == [Called(q, "execute") EXCEPT !.ops = res.ops]
    IN  IF abortOnError(p, res.err).aborted
        THEN [abortOnError(p, res.err).ctx EXCEPT !.pc = "set"]
        ELSE [p EXCEPT !.data = res.data, !.metadata = res.metadata,
                       !.pc = "set"]

makeDataRequestExecuteLeak(q) ==
    LET res == execute(q.request, q.opened)
        p == [Called(q, "execute") EXCEPT !.ops = res.ops]
    IN  IF abortOnError(p, res.err).aborted
        THEN abortOnError(p, res.err).ctx
        ELSE [p EXCEPT !.data = res.data, !.metadata = res.metadata,
                       !.pc = "set"]

\* makeDataRequest: data, metadata, err := request.execute(handle)
makeDataRequestExecute(q) ==
    LET res == execute(q.request, q.opened)
        p == [Called(q, "execute") EXCEPT !.ops = res.ops]
    IN  IF abortOnError(p, res.err).aborted
        THEN Close(abortOnError(p, res.err).ctx)
        ELSE [p EXCEPT !.data = res.data, !.metadata = res.metadata,
                       !.pc = "set"]

Exec(w) ==
    /\ proc[w].pc = "exec"
    /\ proc' = [proc EXCEPT ![w] =
          IF @.request.kind = "metadata" THEN metadataEnd(@)
          ELSE makeDataRequestExecute(@)]
    /\ UNCHANGED <<cache, authorized, started, metrics, pair>>

cacheAfterSetUnbounded(c, p) ==
    Append(CacheRemove(c, p.cacheKey),
           [key |-> p.cacheKey, entry |-> NewCacheEntry(p.data, p.metadata)])

cacheAfterSetSwapped(c, p) ==
    CacheSet(c, p.cacheKey, NewCacheEntry(p.metadata, p.data))

\* makeDataRequest: e.Cache.Set(cacheKey, cache.NewCacheEntry(data, metadata))
cacheAfterSet(c, p) ==
    CacheSet(c, p.cacheKey, NewCacheEntry(p.data, p.metadata))

SetAndRespondIfAbsent(w) ==
    /\ proc[w].pc = "set"
    /\ LET present == proc[w].cacheKey \in CacheKeys(cache)
       IN  /\ cache' = IF present THEN cache ELSE cacheAfterSet(cache, proc[w])
           /\ proc' = [proc EXCEPT ![w] =
                  Close(writeResponse(
                      [@ EXCEPT !.sets = IF present THEN @ ELSE @ + 1],
                      @.metadata, @.data))]
    /\ UNCHANGED <<authorized, started, metrics, pair>>

\* makeDataRequest: Cache.Set; writeResponse(ctx, metadata, data); deferred Close
SetAndRespond(w) ==
    /\ proc[w].pc = "set"
    /\ cache' = cacheAfterSet(cache, proc[w])
    /\ proc' = [proc EXCEPT ![w] =
          Close(writeResponse([@ EXCEPT !.sets = @ + 1], @.metadata, @.data))]
    /\ UNCHANGED <<authorized, started, metrics, pair>>

\* the handler has returned; the worker is free for the next request
Finish(w) ==
    /\ proc[w].pc = "done"
    /\ proc' = [proc EXCEPT ![w] = Idle]
    /\ UNCHANGED <<cache, authorized, started, metrics, pair>>

(***************************************************************************)
(* The storage account: a credential can lose and regain its right to read *)
(* at any time, independently of the requests in flight.                   *)
(***************************************************************************)
Revoke(c) ==
    /\ c \in authorized
    /\ authorized' = authorized \ {c}
    /\ UNCHANGED <<cache, proc, started, metrics, pair>>

Grant(c) ==
    /\ c \notin authorized
    /\ authorized' = authorized \cup {c}
    /\ UNCHANGED <<cache, proc, started, metrics, pair>>

NoPair == <<>>

\* no goroutine of the metrics middleware running, nothing observed
NoMetrics == [tasks |-> <<>>, observed |-> {}, requestCount |-> 0]

Init ==
    /\ cache = <<>>
    /\ authorized = AuthPairs
    /\ proc = [w \in Workers |-> Idle]
    /\ started = 0
    /\ metrics = NoMetrics
    /\ pair = NoPair

Next ==
    \/ \E w \in Workers : Receive(w)
    \/ \E w \in Workers : Get(w)
    \/ \E w \in Workers : Auth(w)
    \/ \E w \in Workers : Open(w)
    \/ \E w \in Workers : Exec(w)
    \/ \E w \in Workers : SetAndRespond(w)
    \/ \E w \in Workers : Finish(w)
    \/ \E c \in AuthPairs : Revoke(c)
    \/ \E c \in AuthPairs : Grant(c)

Spec == Init /\ [][Next]_vars

(***************************************************************************)
(* The fingerprint and execute as functions of the request: two requests   *)
(* that differ in one field are hashed as makeDataRequest hashes them and  *)
(* executed against the dataset each of them names.                        *)
(***************************************************************************)
BaseAlong ==
    [BaseRequest EXCEPT !.kind = "along", !.direction = <<>>,
        !.surface = <<1, 2>>, !.above = 1, !.below = 1, !.stepsize = 1,
        !.attributes = <<"min", "max">>, !.interpolation = "linear"]

BaseBetween ==
    [BaseRequest EXCEPT !.kind = "between", !.direction = <<>>,
        !.surface = <<1, 2>>, !.secondarySurface = <<2, 3>>, !.stepsize = 1,
        !.attributes = <<"min", "max">>, !.interpolation = "linear"]

\* the fields of each variant's Go struct
FieldsOf(kind) ==
    {"vds", "sas"} \cup
    CASE kind = "slice" -> {"direction", "lineno", "bounds"}
      [] kind = "fence" -> {"coordinateSystem", "coordinates",
                            "interpolation", "fillValue"}
      [] kind = "along" -> {"surface", "above", "below", "stepsize",
                            "attributes", "interpolation"}
      [] kind = "between" -> {"surface", "secondarySurface", "stepsize",
                              "attributes", "interpolation"}

ValuesOf(field) ==
    CASE field = "vds" -> {"well_known", "unknown"}
      [] field = "sas" -> Sas
      [] field = "direction" -> {<<"i">>, <<"I">>, <<"j">>}
      [] field = "lineno" -> {0, 1}
      [] field = "bounds" -> {<<>>, <<1>>}
      [] field = "coordinateSystem" -> {<<"i","j">>, <<"I","J">>, <<"c","d","p">>}
      [] field = "coordinates" -> { << <<0, 0>>, <<1, 1>> >>,
                                    << <<1, 1>>, <<0, 0>> >> }
      [] field = "interpolation" -> {"linear", "nearest"}
      [] field = "fillValue" -> {0, 1}
      [] field = "surface" -> {<<1, 2>>, <<2, 1>>}
      [] field = "secondarySurface" -> {<<2, 3>>, <<3, 2>>}
      [] field = "above" -> {1, 2}
      [] field = "below" -> {1, 2}
      [] field = "stepsize" -> {1, 2}
      [] field = "attributes" -> {<<"min", "max">>, <<"max", "min">>, <<"min">>}

Variations(request) ==
    { [request EXCEPT ![f] = v] :
        <<f, v>> \in UNION { {f} \X ValuesOf(f) : f \in FieldsOf(request.kind) } }

HashRequests ==
    UNION { Variations(b) : b \in {BaseRequest, BaseFence, BaseAlong, BaseBetween} }

DiffFields(r1, r2) == {f \in DOMAIN r1 : r1[f] # r2[f]}

NoOutput == ExecFailed(Nil, <<>>)
NoHash == [key |-> NoKey, err |-> Nil]

InitHash ==
    /\ cache = <<>>
    /\ authorized = AuthPairs
    /\ proc = [w \in Workers |-> Idle]
    /\ started = 0
    /\ metrics = NoMetrics
    /\ pair \in { [phase |-> "new", r1 |-> r1, r2 |-> r2,
                    k1 |-> NoHash, k2 |-> NoHash,
                    o1 |-> NoOutput, o2 |-> NoOutput] :
                  <<r1, r2>> \in UNION { {r} \X Variations(r) : r \in HashRequests } }

\* cacheKey, err := request.hash(), for each of the two requests
HashPair ==
    /\ pair.phase = "new"
    /\ pair' = [pair EXCEPT !.phase = "hashed",
                            !.k1 = makeCacheKey(pair.r1),
                            !.k2 = makeCacheKey(pair.r2)]
    /\ UNCHANGED <<cache, authorized, proc, started, metrics>>

\* NewDSHandle, then data, metadata, err := request.execute(handle)
executeOn(request) ==
    LET c == MakeVdsConnection(credentials(request))
        h == NewDSHandle(c.conn, AuthPairs)
    IN  IF h.err # Nil THEN ExecFailed(h.err, <<>>) ELSE execute(request, h.handle)

\* both requests executed, each on a handle of its own
ExecutePair ==
    /\ pair.phase = "hashed"
    /\ pair' = [pair EXCEPT !.phase = "executed",
                            !.o1 = executeOn(pair.r1),
                            !.o2 = executeOn(pair.r2)]
    /\ UNCHANGED <<cache, authorized, proc, started, metrics>>

NextHash == HashPair \/ ExecutePair

SpecHash == InitHash /\ [][NextHash]_vars

(***************************************************************************)
(* Every endpoint, one request at a time: each variant over GET and POST   *)
(* in every wire form (query parameter present or not, JSON well-formed or *)
(* not, fields valid or not, credential resolvable or not), and each       *)
(* variant with one field the handler or the engine rejects.               *)
(***************************************************************************)
WireForms ==
    { [method |-> "GET", hasQuery |-> q, jsonOK |-> j, structOK |-> v, sasOK |-> s] :
        q \in BOOLEAN, j \in BOOLEAN, v \in BOOLEAN, s \in BOOLEAN }
    \cup
    { [method |-> "POST", hasQuery |-> TRUE, jsonOK |-> j, structOK |-> v, sasOK |-> s] :
        j \in BOOLEAN, v \in BOOLEAN, s \in BOOLEAN }

OnWire(request, form) ==
    [request EXCEPT !.method = form.method, !.hasQuery = form.hasQuery,
                    !.jsonOK = form.jsonOK, !.structOK = form.structOK,
                    !.sasOK = form.sasOK]

Variants == {BaseMetadata, BaseRequest, BaseFence, BaseAlong, BaseBetween}

Rejected ==
    { [BaseMetadata EXCEPT !.vds = "unknown"],
      [BaseRequest EXCEPT !.direction = <<"u">>],
      [BaseRequest EXCEPT !.direction = <<"I">>],
      [BaseRequest EXCEPT !.direction = <<"u">>, !.vds = "unknown"],
      [BaseRequest EXCEPT !.lineno = 10],
      [BaseRequest EXCEPT !.vds = "unknown"],
      [BaseRequest EXCEPT !.vds = "bad_url"],
      [BaseRequest EXCEPT !.serializable = FALSE],
      [BaseFence EXCEPT !.coordinateSystem = <<"u">>],
      [BaseFence EXCEPT !.interpolation = "unsupported"],
      [BaseFence EXCEPT !.coordinates = << <<0>> >>],
      [BaseFence EXCEPT !.coordinates = << <<0, 0>>, <<1, 1>>, <<2, 1, 3, 4>> >>],
      [BaseFence EXCEPT !.coordinates = << <<0>> >>, !.interpolation = "unsupported"],
      [BaseAlong EXCEPT !.above = -1],
      [BaseAlong EXCEPT !.above = 250],
      [BaseAlong EXCEPT !.below = -1],
      [BaseAlong EXCEPT !.below = 250],
      [BaseAlong EXCEPT !.stepsize = -1],
      [BaseAlong EXCEPT !.interpolation = "unsupported"],
      [BaseAlong EXCEPT !.attributes = <<"max">>],
      [BaseAlong EXCEPT !.vds = "unknown"],
      [BaseBetween EXCEPT !.interpolation = "unsupported"],
      [BaseBetween EXCEPT !.secondarySurface = <<2>>],
      [BaseBetween EXCEPT !.attributes = <<"max">>],
      [BaseBetween EXCEPT !.vds = "unknown"] }

EndpointRequests ==
    { OnWire(request, form) : request \in Variants, form \in WireForms }
    \cup Rejected

Worker == "w1"

ReceiveAny ==
    /\ proc[Worker].pc = "idle"
    /\ started < MaxRequests
    /\ \E request \in EndpointRequests :
          proc' = [proc EXCEPT ![Worker] = endpoint(request)]
    /\ started' = started + 1
    /\ UNCHANGED <<cache, authorized, metrics, pair>>

NextEndpoints ==
    \/ ReceiveAny
    \/ Get(Worker)
    \/ Auth(Worker)
    \/ Open(Worker)
    \/ Exec(Worker)
    \/ SetAndRespond(Worker)
    \/ Finish(Worker)
    \/ \E c \in AuthPairs : Revoke(c)
    \/ \E c \in AuthPairs : Grant(c)

SpecEndpoints == Init /\ [][NextEndpoints]_vars

(***************************************************************************)
(* Two datasets behind one cache: each of two callers holds a token that   *)
(* lets it read one dataset and not the other, and both ask for the same   *)
(* slice of either dataset.                                                *)
(***************************************************************************)
OtherVds == "other_known"

DatasetPairs == {<<"well_known", "sasA">>, <<OtherVds, "sasB">>}

DatasetRequests ==
    { [BaseRequest EXCEPT !.vds = v, !.sas = t] :
        v \in {"well_known", OtherVds}, t \in Sas }

InitDatasets ==
    /\ cache = <<>>
    /\ authorized = DatasetPairs
    /\ proc = [w \in Workers |-> Idle]
    /\ started = 0
    /\ metrics = NoMetrics
    /\ pair = NoPair

ReceiveForDataset(w) ==
    /\ proc[w].pc = "idle"
    /\ started < MaxRequests
    /\ \E request \in DatasetRequests :
          proc' = [proc EXCEPT ![w] = endpoint(request)]
    /\ started' = started + 1
    /\ UNCHANGED <<cache, authorized, metrics, pair>>

NextDatasets ==
    \/ \E w \in Workers : ReceiveForDataset(w)
    \/ \E w \in Workers : Get(w)
    \/ \E w \in Workers : Auth(w)
    \/ \E w \in Workers : Open(w)
    \/ \E w \in Workers : Exec(w)
    \/ \E w \in Workers : SetAndRespond(w)
    \/ \E w \in Workers : Finish(w)

SpecDatasets == InitDatasets /\ [][NextDatasets]_vars

(***************************************************************************)
(* The cache under concurrent requests that all succeed: entries of two,   *)
(* three and four parts compete for the budget.                            *)
(***************************************************************************)
CacheRequests ==
    { BaseRequest, BaseFence, BaseAlong,
      [BaseAlong EXCEPT !.attributes = <<"min", "max", "mean">>] }

ReceiveCacheable(w) ==
    /\ proc[w].pc = "idle"
    /\ started < MaxRequests
    /\ \E request \in CacheRequests :
          proc' = [proc EXCEPT ![w] = endpoint(request)]
    /\ started' = started + 1
    /\ UNCHANGED <<cache, authorized, metrics, pair>>

NextCache ==
    \/ \E w \in Workers : ReceiveCacheable(w)
    \/ \E w \in Workers : Get(w)
    \/ \E w \in Workers : Auth(w)
    \/ \E w \in Workers : Open(w)
    \/ \E w \in Workers : Exec(w)
    \/ \E w \in Workers : SetAndRespond(w)
    \/ \E w \in Workers : Finish(w)

SpecCache == Init /\ [][NextCache]_vars

(***************************************************************************)
(* The liveness endpoint among data requests: Health is called in every    *)
(* state of the cache and of the storage account.                          *)
(***************************************************************************)
HealthRequest ==
    [BaseRequest EXCEPT !.kind = "health", !.method = "GET",
                        !.vds = "", !.sas = "", !.direction = <<>>]

HealthProbing(w) ==
    /\ proc[w].pc = "idle"
    /\ started < MaxRequests
    /\ proc' = [proc EXCEPT ![w] =
          [Idle EXCEPT !.request = HealthRequest, !.pc = "done",
                       !.status = IF authorized = {} THEN 500 ELSE 200,
                       !.body = <<"index.html">>]]
    /\ cache' = IF cache = <<>> THEN cache
                ELSE CacheGet(cache, cache[1].key).cache
    /\ started' = started + 1
    /\ UNCHANGED <<authorized, metrics, pair>>

\* Endpoint.Health: ctx.HTML(http.StatusOK, "index.html", gin.H{})
Health(w) ==
    /\ proc[w].pc = "idle"
    /\ started < MaxRequests
    /\ proc' = [proc EXCEPT ![w] =
          [Idle EXCEPT !.request = HealthRequest, !.pc = "done",
                       !.status = 200, !.body = <<"index.html">>]]
    /\ started' = started + 1
    /\ UNCHANGED <<cache, authorized, metrics, pair>>

DataBesideHealth == {BaseRequest, BaseFence}

ReceiveBesideHealth(w) ==
    /\ proc[w].pc = "idle"
    /\ started < MaxRequests
    /\ \E request \in DataBesideHealth :
          proc' = [proc EXCEPT ![w] = endpoint(request)]
    /\ started' = started + 1
    /\ UNCHANGED <<cache, authorized, metrics, pair>>

NextHealth ==
    \/ \E w \in Workers : Health(w)
    \/ \E w \in Workers : ReceiveBesideHealth(w)
    \/ \E w \in Workers : Get(w)
    \/ \E w \in Workers : Auth(w)
    \/ \E w \in Workers : Open(w)
    \/ \E w \in Workers : Exec(w)
    \/ \E w \in Workers : SetAndRespond(w)
    \/ \E w \in Workers : Finish(w)
    \/ \E c \in AuthPairs : Revoke(c)
    \/ \E c \in AuthPairs : Grant(c)

SpecHealth == Init /\ [][NextHealth]_vars

(***************************************************************************)
(* The metrics middleware around the handlers, one request at a time:      *)
(* after ctx.Next() it starts a goroutine that reads the context and       *)
(* writes to the registry, and returns without waiting for it.  gin takes  *)
(* the context back when the middleware returns and hands it to the next   *)
(* request, so the goroutine reads what its own request left or, once the  *)
(* context has been handed to a later request, what that request has put   *)
(* in it by then.                                                          *)
(***************************************************************************)
MetricsRequests ==
    { BaseRequest, BaseMetadata,
      [BaseRequest EXCEPT !.vds = "unknown"],
      [BaseRequest EXCEPT !.method = "GET", !.hasQuery = FALSE] }

ReceiveMetered ==
    /\ proc[Worker].pc = "idle"
    /\ started < MaxRequests
    /\ \E request \in MetricsRequests :
          proc' = [proc EXCEPT ![Worker] = endpoint(request)]
    /\ started' = started + 1
    /\ UNCHANGED <<cache, authorized, metrics, pair>>

\* path, method, status, size and cachehit as the goroutine reads them
Labels(p) ==
    [path |-> p.request.kind, method |-> p.request.method,
     status |-> p.status, size |-> Len(p.body), cachehit |-> p.cachehit]

ReturnWithoutGoroutine(w) ==
    /\ proc[w].pc = "done"
    /\ proc' = [proc EXCEPT ![w] = Idle]
    /\ UNCHANGED <<cache, authorized, started, metrics, pair>>

\* NewGinMiddleware: ctx.Next() has returned; go func() { ... }(); return
Return(w) ==
    /\ proc[w].pc = "done"
    /\ metrics' = [metrics EXCEPT
          !.tasks = Append(@, [ctx |-> w, own |-> Labels(proc[w])])]
    /\ proc' = [proc EXCEPT ![w] = Idle]
    /\ UNCHANGED <<cache, authorized, started, pair>>

RemoveAt(seq, i) == SubSeq(seq, 1, i - 1) \o SubSeq(seq, i + 1, Len(seq))

\* the goroutine of NewGinMiddleware: reads the context, then Observe,
\* Observe and Inc on the registry
Record(i) ==
    /\ i \in DOMAIN metrics.tasks
    /\ \E seen \in {metrics.tasks[i].own} \cup
                     IF proc[metrics.tasks[i].ctx].pc = "idle"
                     THEN {}
                     ELSE {Labels(proc[metrics.tasks[i].ctx])} :
          metrics' = [tasks |-> RemoveAt(metrics.tasks, i),
                      observed |-> metrics.observed \cup {seen},
                      requestCount |-> metrics.requestCount + 1]
    /\ UNCHANGED <<cache, authorized, proc, started, pair>>

NextMetrics ==
    \/ ReceiveMetered
    \/ Get(Worker)
    \/ Auth(Worker)
    \/ Open(Worker)
    \/ Exec(Worker)
    \/ SetAndRespond(Worker)
    \/ Return(Worker)
    \/ \E i \in 1..MaxRequests : Record(i)

SpecMetrics == Init /\ [][NextMetrics]_vars

(***************************************************************************)
(* The middleware and every endpoint under the scheduling of the Go        *)
(* runtime: the calls of the handler return, so a handler that can take    *)
(* its next step takes it, and a goroutine that is runnable is run.  No    *)
(* fairness is put on the arrival of requests or on the storage account.   *)
(***************************************************************************)
ServedRequests ==
    { BaseRequest, BaseMetadata,
      [BaseRequest EXCEPT !.method = "GET", !.hasQuery = FALSE] }

ReceiveServed ==
    /\ proc[Worker].pc = "idle"
    /\ started < MaxRequests
    /\ \E request \in ServedRequests :
          proc' = [proc EXCEPT ![Worker] = endpoint(request)]
    /\ started' = started + 1
    /\ UNCHANGED <<cache, authorized, metrics, pair>>

\* the steps of the handler of the request in flight, to its return
Handle ==
    \/ Get(Worker)
    \/ Auth(Worker)
    \/ Open(Worker)
    \/ Exec(Worker)
    \/ SetAndRespond(Worker)

\* the goroutines the middleware has started
Goroutines == \E i \in 1..MaxRequests : Record(i)

NextServed ==
    \/ ReceiveServed
    \/ Health(Worker)
    \/ Handle
    \/ Return(Worker)
    \/ Goroutines
    \/ Revoke(<<BaseRequest.vds, BaseRequest.sas>>)

SpecServed ==
    /\ Init /\ [][NextServed]_vars
    /\ WF_vars(Handle) /\ WF_vars(Return(Worker)) /\ WF_vars(Goroutines)

(***************************************************************************)
(* abortOnError as a function: every kind of error (nil, the two kinds of  *)
(* package core, and any other Go error) on the contexts a handler has     *)
(* when it calls it.                                                       *)
(***************************************************************************)
ErrorKinds == {"InvalidArgument", "InternalError", "error"}

ErrorMessages == {"", "invalid character", "Could not open VDS"}

Errors ==
    {Nil} \cup
    {[kind |-> k, msg |-> m, args |-> <<>>] : k \in ErrorKinds, m \in ErrorMessages}

\* the context after parsing, after the connection and after NewDSHandle
Contexts ==
    {[Idle EXCEPT !.request = request] : request \in Variants}
    \cup {endpoint(request) : request \in Variants}
    \cup {openHandle([endpoint(request) EXCEPT !.pc = "open"], AuthPairs) :
            request \in Variants}

NoAbort == [ctx |-> Idle, aborted |-> FALSE]

InitAbort ==
    /\ cache = <<>>
    /\ authorized = AuthPairs
    /\ proc = [w \in Workers |-> Idle]
    /\ started = 0
    /\ metrics = NoMetrics
    /\ \E p \in Contexts, err \in Errors :
          pair = [ctx |-> p, err |-> err, called |-> FALSE, out |-> NoAbort]

\* if abortOnError(ctx, err) { return }
Abort ==
    /\ ~pair.called
    /\ pair' = [pair EXCEPT !.called = TRUE,
                            !.out = abortOnError(pair.ctx, pair.err)]
    /\ UNCHANGED <<cache, authorized, proc, started, metrics>>

NextAbort == Abort

SpecAbort == InitAbort /\ [][NextAbort]_vars

(***************************************************************************)
(* validateVerticalWindow as a function, on the values around its bounds.  *)
(***************************************************************************)
WindowValues == {-1, 0, 1, 249, 250, 251}

InitWindow ==
    /\ cache = <<>>
    /\ authorized = AuthPairs
    /\ proc = [w \in Workers |-> Idle]
    /\ started = 0
    /\ metrics = NoMetrics
    /\ \E above \in WindowValues, below \in WindowValues, stepsize \in WindowValues :
          pair = [above |-> above, below |-> below, stepsize |-> stepsize,
                  called |-> FALSE, err |-> Nil]

\* AttributeAlongSurfaceRequest.execute: err = validateVerticalWindow(...)
Validate ==
    /\ ~pair.called
    /\ pair' = [pair EXCEPT !.called = TRUE,
                    !.err = validateVerticalWindow(pair.above, pair.below,
                                                   pair.stepsize)]
    /\ UNCHANGED <<cache, authorized, proc, started, metrics>>

NextWindow == Validate

SpecWindow == InitWindow /\ [][NextWindow]_vars

(***************************************************************************)
(* Properties.                                                             *)
(***************************************************************************)
CacheMap(c) == [k \in CacheKeys(c) |-> CacheEntryOf(c, k)]

SameShape(r1, r2) == DiffFields(r1, r2) \subseteq {"sas"}

Refused(p) == p.hit /\ p.authz = "no"

\* C1: a request whose connection answered IsAuthorizedToRead() = false at
\* the lookup is never answered from the cached entry: the hit branch is
\* taken only when the lookup hit and IsAuthorizedToRead() answered true.
C1_NoCachedContentUnauthorized ==
    \A w \in Workers :
        /\ proc[w].authz = "no" => ~proc[w].cachehit
        /\ proc[w].cachehit => proc[w].hit /\ proc[w].authz = "yes"

C1_Witness ==
    \E w \in Workers : Refused(proc[w]) /\ proc[w].pc = "open"

\* C2 as stated: a request whose lookup hit while IsAuthorizedToRead() was
\* false ends with the error of NewDSHandle, never with a 200.
C2_RefusedHitEndsInError ==
    \A w \in Workers :
        Refused(proc[w]) /\ proc[w].pc = "done" =>
            /\ proc[w].status = 500
            /\ proc[w].err = NewInternalError("Could not open VDS")

\* C2 amended: such a request goes on to NewDSHandle and never writes the
\* cached entry; if NewDSHandle fails it ends with that error (500), and it
\* ends with a 200 only when NewDSHandle succeeded afterwards, with the data
\* its own execute computed.
C2_RefusedHitOpensHandle ==
    \A w \in Workers :
        Refused(proc[w]) =>
            /\ proc[w].pc \in {"open", "exec", "set", "done"}
            /\ ~proc[w].cachehit
            /\ proc[w].pc = "done" /\ proc[w].handle = "none" =>
                  /\ proc[w].status = 500
                  /\ proc[w].err = NewInternalError("Could not open VDS")
            /\ proc[w].status = 200 =>
                  /\ proc[w].handle = "closed"
                  /\ proc[w].sets = 1
                  /\ proc[w].body = proc[w].metadata \o proc[w].data

C2_Witness ==
    \E w \in Workers :
        /\ Refused(proc[w]) /\ proc[w].pc = "done"
        /\ proc[w].handle = "none" /\ proc[w].status = 500

\* C3: a revocation leaves the cache as it is, and a data request whose
\* credential is revoked when it is checked against a cached fingerprint gets
\* no cached content and leaves the cache as it is; if it ends refused it
\* has not set the cache.
C3_Revocation ==
    [][ /\ authorized' # authorized => CacheMap(cache') = CacheMap(cache)
        /\ \A w \in Workers :
              /\ proc[w].pc = "auth" /\ proc'[w] # proc[w]
              /\ credentials(proc[w].request) \notin authorized
              => /\ CacheMap(cache') = CacheMap(cache)
                 /\ proc'[w].status = 0 /\ proc'[w].body = <<>>
                 /\ ~proc'[w].cachehit
                 /\ proc'[w].pc = "open"
        /\ \A w \in Workers :
              Refused(proc'[w]) /\ proc'[w].status = 500 /\ proc[w].status = 0 =>
                  /\ proc'[w].sets = 0
                  /\ proc'[w].body = <<>>
                  /\ CacheMap(cache') = CacheMap(cache) ]_vars

C3_Witness ==
    \E w \in Workers :
        /\ Refused(proc[w]) /\ proc[w].status = 500
        /\ credentials(proc[w].request) \notin authorized
        /\ proc[w].cacheKey \in CacheKeys(cache)
        /\ CacheEntryOf(cache, proc[w].cacheKey) = proc[w].cacheEntry

\* C4: a data or metadata request that ended with a 200 passed a live
\* authorization check first: IsAuthorizedToRead() answered true on the
\* cache-hit path, NewDSHandle succeeded on the fresh path and in metadata.
C4_AuthorizedBeforeDisclosure ==
    \A w \in Workers :
        proc[w].status = 200 =>
            \/ /\ proc[w].cachehit
               /\ proc[w].authz = "yes"
               /\ proc[w].handle = "none"
            \/ /\ ~proc[w].cachehit
               /\ proc[w].handle = "closed"
               /\ proc[w].opened.vds = proc[w].conn.vds
               /\ proc[w].opened.vds \in ExistingVds

C4_Witness ==
    \E w1, w2 \in Workers :
        /\ proc[w1].status = 200 /\ proc[w1].cachehit
        /\ proc[w2].status = 200 /\ proc[w2].request.kind = "metadata"

\* C5: two requests of one variant that differ only in the credential get
\* the same cache key from makeDataRequest's request.hash().
C5_FingerprintCredentialFree ==
    pair.phase # "new" /\ DiffFields(pair.r1, pair.r2) \subseteq {"sas"} =>
        pair.k1 = pair.k2

C5_Witness ==
    /\ pair.phase # "new"
    /\ DiffFields(pair.r1, pair.r2) = {"sas"}
    /\ pair.k1.err = Nil /\ pair.k1.key # NoKey
    /\ pair.k1 = pair.k2

\* the fields C6 names as result-affecting
ResultFields ==
    {"direction", "lineno", "bounds", "coordinates", "coordinateSystem",
     "interpolation", "fillValue", "surface", "secondarySurface",
     "above", "below", "stepsize", "attributes"}

CasedFields == {"direction", "coordinateSystem"}

\* the result-affecting fields in which two requests differ once the tokens
\* that execute lower-cases are compared without regard to case
NormalizedDiff(r1, r2) ==
    { f \in ResultFields :
        IF f \in CasedFields THEN ToLower(r1[f]) # ToLower(r2[f])
        ELSE r1[f] # r2[f] }

CasingOnly(r1, r2) ==
    /\ DiffFields(r1, r2) # {}
    /\ DiffFields(r1, r2) \subseteq CasedFields
    /\ NormalizedDiff(r1, r2) = {}

C8_SharedAcrossCallers ==
    \A w \in Workers :
        /\ proc[w].pc = "get" =>
              \A a \in Workers \ {w} : \A i \in DOMAIN cache :
                  /\ proc[a].sets = 1
                  /\ cache[i].entry = NewCacheEntry(proc[a].data, proc[a].metadata)
                  /\ SameShape(proc[a].request, proc[w].request)
                  => cache[i].key = proc[w].cacheKey
        /\ proc[w].hit /\ proc[w].authz = "yes" =>
              /\ proc[w].cachehit
              /\ proc[w].status = 200
              /\ proc[w].body = proc[w].cacheEntry.metadata \o proc[w].cacheEntry.data

C8_Witness ==
    \E a, b \in Workers :
        /\ proc[a].sets = 1 /\ proc[a].status = 200
        /\ proc[b].cachehit /\ proc[b].status = 200
        /\ proc[a].request.sas # proc[b].request.sas
        /\ SameShape(proc[a].request, proc[b].request)
        /\ proc[b].cacheEntry = NewCacheEntry(proc[a].data, proc[a].metadata)
        /\ proc[b].body = proc[a].body

\* C9: a failure is never cached.  A request that ends in an error has not
\* called Cache.Set, the step that ends it leaves the cache as it is, the
\* cache changes only in the Cache.Set of a request whose execute returned
\* without error, and Cache.Set is reached with no error.
C9_FailureNeverCached ==
    [][ /\ \A w \in Workers :
              proc'[w].status \in {400, 500} =>
                  /\ proc'[w].sets = 0
                  /\ proc[w].status = 0 => CacheMap(cache') = CacheMap(cache)
        /\ \A w \in Workers :
              proc'[w].pc = "set" =>
                  /\ proc'[w].err = Nil /\ proc'[w].status = 0
                  /\ proc'[w].handle = "open"
        /\ CacheMap(cache') # CacheMap(cache) =>
              \E w \in Workers :
                  /\ proc[w].pc = "set" /\ proc[w].err = Nil
                  /\ proc'[w].sets = 1 /\ proc'[w].status = 200 ]_vars

C9_Witness ==
    \E w \in Workers :
        /\ proc[w].status = 400 /\ proc[w].handle = "closed"
        /\ proc[w].err = LinenoError(proc[w].request.lineno)
        /\ proc[w].cacheKey \notin CacheKeys(cache)
        /\ cache # <<>>

C11_VerbatimReplay ==
    \A a, b \in Workers :
        /\ proc[a].status = 200
        /\ proc[a].request.kind # "metadata"
        /\ proc[b].request = proc[a].request
        => /\ proc[b].hit =>
                 proc[b].cacheEntry.metadata \o proc[b].cacheEntry.data
                     = proc[a].body
           /\ proc[b].pc = "set" =>
                 proc[b].metadata \o proc[b].data = proc[a].body
           /\ proc[b].status = 200 => proc[b].body = proc[a].body

\* the first response's entry has been evicted, the second request missed
\* and has recomputed the same parts
C11_Witness ==
    \E a, b \in Workers :
        /\ proc[a].sets = 1 /\ proc[a].status = 200
        /\ proc[b].request = proc[a].request
        /\ proc[b].pc = "set" /\ ~proc[b].hit
        /\ proc[a].cacheKey \notin CacheKeys(cache)
        /\ cache # <<>>
        /\ proc[b].metadata \o proc[b].data = proc[a].body

\* two requests with one fingerprint that both missed and both executed
BothExecuted(a, b) ==
    /\ a # b
    /\ proc[a].cacheKey # NoKey /\ proc[a].cacheKey = proc[b].cacheKey
    /\ ~proc[a].hit /\ ~proc[b].hit
    /\ proc[a].pc \in {"set", "done"} /\ proc[b].pc \in {"set", "done"}
    /\ proc[a].handle # "none" /\ proc[b].handle # "none"

C12_BothServed ==
    \A a, b \in Workers : BothExecuted(a, b) =>
        /\ (proc[a].err = Nil) <=> (proc[b].err = Nil)
        /\ proc[a].err = Nil =>
              LET res == execute(proc[a].request, proc[a].opened)
              IN  /\ proc[a].data = res.data /\ proc[a].metadata = res.metadata
                  /\ proc[a].pc = "done" =>
                        /\ proc[a].status = 200
                        /\ proc[a].sets = 1 /\ proc[a].writes = 1
                        /\ proc[a].body = res.metadata \o res.data

C12_LastWriterWins ==
    \A w \in Workers :
        proc[w].pc = "set" /\ proc'[w].pc = "done" =>
            /\ cache' # <<>>
            /\ cache'[Len(cache')] =
                  [key |-> proc[w].cacheKey,
                   entry |-> NewCacheEntry(proc[w].data, proc[w].metadata)]
            /\ Cardinality({i \in DOMAIN cache' :
                               cache'[i].key = proc[w].cacheKey}) = 1

\* C12: lookup, compute and insert are not serialized per fingerprint.  Two
\* requests with one fingerprint can both miss and both execute; whenever
\* they do, execute gives both the same outcome, and when it succeeds each
\* of them answers 200 with the parts its own execute computed and each
\* calls Cache.Set once; every Cache.Set leaves the setter's entry as the
\* single entry of the key (the later Set is the one that stays).
C12_ConcurrentMisses == []C12_BothServed /\ [][C12_LastWriterWins]_vars

\* both missed, both executed, both have called Cache.Set and answered 200
C12_Witness ==
    \E a, b \in Workers :
        /\ BothExecuted(a, b)
        /\ proc[a].pc = "done" /\ proc[b].pc = "done"
        /\ proc[a].status = 200 /\ proc[b].status = 200
        /\ proc[a].sets = 1 /\ proc[b].sets = 1
        /\ cache[Len(cache)].key = proc[a].cacheKey

\* C13: every handle NewDSHandle opened is closed exactly once before its
\* request finishes, on every exit path; a handle is open only while its
\* request is between NewDSHandle and its response, so with no request in
\* flight no handle is open.
C13_HandleClosedOnce ==
    \A w \in Workers :
        /\ (proc[w].handle = "none") <=> (proc[w].opened.vds = "")
        /\ proc[w].handle = "none" => proc[w].closes = 0
        /\ proc[w].handle = "open" =>
              proc[w].closes = 0 /\ proc[w].pc \in {"exec", "set"}
        /\ proc[w].handle = "closed" =>
              proc[w].closes = 1 /\ proc[w].pc = "done"
        /\ proc[w].pc \in {"exec", "set"} => proc[w].handle = "open"
        /\ proc[w].pc \in {"idle", "done"} => proc[w].handle # "open"

\* one request failed validation inside execute, another one succeeded:
\* both had a handle and both have closed it once
C13_Witness ==
    \E a, b \in Workers :
        /\ proc[a].pc = "done" /\ proc[a].err.kind = "InvalidArgument"
        /\ proc[a].handle = "closed" /\ proc[a].closes = 1
        /\ proc[b].pc = "done" /\ proc[b].status = 200 /\ proc[b].sets = 1
        /\ proc[b].handle = "closed" /\ proc[b].closes = 1

\* the variant's own validation, as its execute does it before any engine read
VariantValid(request) ==
    CASE request.kind = "slice" -> sliceAxis(request).err = Nil
      [] request.kind = "fence" ->
            /\ fenceCoordinateSystem(request).err = Nil
            /\ GetInterpolationMethod(request.interpolation).err = Nil
      [] request.kind = "along" ->
            /\ validateVerticalWindow(request.above, request.below,
                                      request.stepsize) = Nil
            /\ GetInterpolationMethod(request.interpolation).err = Nil
      [] request.kind = "between" ->
            GetInterpolationMethod(request.interpolation).err = Nil
      [] OTHER -> TRUE

\* C14 as stated: a handle is opened only for a request that passes the
\* structural validation and its variant's token and vertical-window
\* validation.
C14_HandleOnlyAfterAllValidation ==
    \A w \in Workers :
        proc[w].handle # "none" =>
            /\ parseRequest(proc[w].request) = Nil
            /\ VariantValid(proc[w].request)

\* C14, amended: NewDSHandle is invoked only after parsing, structural
\* validation and credential resolution have passed and the connection (and
\* for a data request the fingerprint) has been made: a request that fails
\* those never opens a handle.  The variant's token and vertical-window
\* validation runs inside execute, with the handle open: a request that
\* fails it holds a handle until it ends with the InvalidArgument (400),
\* without any part written and with the handle closed.
C14_HandleOnlyAfterStructuralValidation ==
    \A w \in Workers :
        /\ proc[w].handle # "none" =>
              /\ parseRequest(proc[w].request) = Nil
              /\ proc[w].conn # NoConn
              /\ proc[w].logged = toString(proc[w].request)
              /\ proc[w].request.kind # "metadata" => proc[w].cacheKey # NoKey
        /\ proc[w].pc = "exec" => proc[w].handle = "open"
        /\ /\ proc[w].pc = "done" /\ proc[w].handle # "none"
           /\ ~VariantValid(proc[w].request)
           => /\ proc[w].handle = "closed"
              /\ proc[w].err.kind = "InvalidArgument" /\ proc[w].status = 400
              /\ proc[w].body = <<>> /\ proc[w].sets = 0

\* a vertical window out of range was found with the handle open
C14_Witness ==
    /\ proc[Worker].request.kind = "along"
    /\ validateVerticalWindow(proc[Worker].request.above,
           proc[Worker].request.below, proc[Worker].request.stepsize) # Nil
    /\ proc[Worker].pc = "done" /\ proc[Worker].handle = "closed"
    /\ proc[Worker].status = 400

\* C15: error classification is total.  abortOnError with a nil error leaves
\* the context untouched and returns false; with any other error it returns
\* true and aborts the context with that error and the status of
\* httpStatusCode: 400 for an InvalidArgument, 500 for an InternalError and
\* 500 for an error of any other kind; nothing else of the context changes.
C15_ErrorClassification ==
    pair.called =>
        /\ pair.err = Nil =>
              ~pair.out.aborted /\ pair.out.ctx = pair.ctx
        /\ pair.err # Nil =>
              /\ pair.out.aborted
              /\ pair.out.ctx.err = pair.err
              /\ pair.out.ctx.pc = "done"
              /\ pair.out.ctx.status =
                    IF pair.err.kind = "InvalidArgument" THEN 400 ELSE 500
              /\ pair.out.ctx.aborts = pair.ctx.aborts + 1
              /\ [pair.out.ctx EXCEPT !.err = Nil, !.status = pair.ctx.status,
                                      !.pc = pair.ctx.pc,
                                      !.aborts = pair.ctx.aborts] = pair.ctx

\* an error that is neither of the two kinds has aborted a request with 500
C15_Witness ==
    /\ pair.called /\ pair.out.aborted
    /\ pair.err.kind = "error"
    /\ pair.ctx.handle = "open"
    /\ pair.out.ctx.status = 500

\* C16: no partial multipart output.  A request calls writeResponse at most
\* once, and only with status 200, either on an authorized cache hit (the
\* entry's parts) or after parsing, NewDSHandle and every engine call of its
\* execute have succeeded (the computed parts); a request that ends in an
\* error has a 400 or 500 and has written no metadata part and no data block.
C16_NoPartialOutput ==
    \A w \in Workers :
        /\ proc[w].writes <= 1
        /\ proc[w].writes = 1 =>
              /\ proc[w].pc = "done" /\ proc[w].status = 200
              /\ proc[w].err = Nil
              /\ parseRequest(proc[w].request) = Nil
              /\ \/ /\ proc[w].cachehit
                    /\ proc[w].hit /\ proc[w].authz = "yes"
                    /\ proc[w].body = proc[w].cacheEntry.metadata
                                         \o proc[w].cacheEntry.data
                 \/ /\ ~proc[w].cachehit
                    /\ proc[w].handle = "closed"
                    /\ execute(proc[w].request, proc[w].opened).err = Nil
                    /\ proc[w].body = proc[w].metadata \o proc[w].data
        /\ proc[w].err # Nil =>
              /\ proc[w].pc = "done" /\ proc[w].status \in {400, 500}
              /\ proc[w].writes = 0 /\ proc[w].body = <<>>
        /\ proc[w].status = 200 /\ proc[w].request.kind # "metadata" =>
              proc[w].writes = 1

\* the fence metadata was computed, the fence itself failed: nothing written
C16_Witness ==
    /\ proc[Worker].request.kind = "fence"
    /\ GetFenceMetadata(proc[Worker].opened,
                        proc[Worker].request.coordinates).err = Nil
    /\ proc[Worker].pc = "done" /\ proc[Worker].handle = "closed"
    /\ proc[Worker].err.msg = InvalidCoordinate
    /\ proc[Worker].status = 400
    /\ proc[Worker].writes = 0 /\ proc[Worker].body = <<>>

\* the number of parts a successful response of the variant has
PartCount(request) ==
    CASE request.kind = "metadata" -> 1
      [] request.kind \in {"slice", "fence"} -> 2
      [] request.kind \in {"along", "between"} -> 1 + Len(request.attributes)

\* the engine result each part of a variant's response is
PartKinds(request) ==
    CASE request.kind = "metadata" -> <<"metadata">>
      [] request.kind = "slice" -> <<"slice-metadata", "slice">>
      [] request.kind = "fence" -> <<"fence-metadata", "fence">>
      [] request.kind = "along" ->
            <<"attribute-metadata">> \o
            [i \in DOMAIN request.attributes |-> "attribute-along"]
      [] request.kind = "between" ->
            <<"attribute-metadata">> \o
            [i \in DOMAIN request.attributes |-> "attribute-between"]

\* C17: part counts.  A successful Metadata response has one part, a Slice
\* or Fence response has two (metadata, then one data block), an Along or
\* Between response with K attributes has 1 + K: the metadata, then the
\* block of each attribute in the order the request lists them; the same
\* whether the response is computed or served from the cache.
C17_PartCount ==
    \A w \in Workers :
        proc[w].status = 200 =>
            LET request == proc[w].request
                body == proc[w].body
            IN  /\ Len(body) = PartCount(request)
                /\ [i \in DOMAIN body |-> body[i].what] = PartKinds(request)
                /\ request.kind \in {"along", "between"} =>
                      \A i \in DOMAIN request.attributes :
                          body[1 + i].asked.attribute = request.attributes[i]

\* an Along response with two attributes served from the cache: three parts
C17_Witness ==
    /\ proc[Worker].request.kind = "along"
    /\ Len(proc[Worker].request.attributes) = 2
    /\ proc[Worker].cachehit /\ proc[Worker].status = 200
    /\ Len(proc[Worker].body) = 3

\* the request was refused before makeDataRequest or metadata began: nothing
\* logged, no connection, no fingerprint, no cache lookup, no handle
RefusedAtParse(p) ==
    /\ p.pc = "done" /\ p.status = 400 /\ p.err.kind = "InvalidArgument"
    /\ p.logged = NoRequest /\ p.conn = NoConn /\ p.cacheKey = NoKey
    /\ ~p.hit /\ p.cacheEntry = NoEntry /\ p.authz = "unasked"
    /\ p.handle = "none" /\ p.body = <<>> /\ p.sets = 0

\* C18: a GET request without the 'query' parameter is refused with 400
\* and the message that the endpoint requires a 'query' parameter; a GET
\* request whose query is not well-formed JSON is refused with 400 and the
\* JSON parse error, a different message.  Neither builds a connection,
\* looks up the cache or opens a handle.
C18_MissingQuery ==
    /\ MissingQuery # InvalidQuery
    /\ \A w \in Workers :
          proc[w].request.kind # "" /\ proc[w].request.method = "GET" =>
              /\ ~proc[w].request.hasQuery =>
                    /\ proc[w].err = NewInvalidArgument(MissingQuery)
                    /\ RefusedAtParse(proc[w])
              /\ proc[w].request.hasQuery /\ ~proc[w].request.jsonOK =>
                    /\ proc[w].err = NewInvalidArgument(InvalidQuery)
                    /\ RefusedAtParse(proc[w])

\* a GET without query, whose query would not have been JSON either
C18_Witness ==
    /\ proc[Worker].request.method = "GET"
    /\ ~proc[Worker].request.hasQuery /\ ~proc[Worker].request.jsonOK
    /\ proc[Worker].request.kind = "between"
    /\ proc[Worker].err.msg = MissingQuery
    /\ proc[Worker].status = 400

\* the request got as far as the validation of its fields
Decoded(request) ==
    (request.method = "GET" => request.hasQuery) /\ request.jsonOK

NoSas == NewInvalidArgument("No valid Sas token is found")

\* C19: NormalizeConnection runs only after decoding and the validation of
\* the fields have succeeded, for GET and for POST.  A request without a
\* resolvable credential that passes both is refused with 400 and the
\* credential error before any connection; a request whose fields are not
\* valid is refused with the validation error, whatever its credential.
C19_NormalizeAfterValidation ==
    \A w \in Workers :
        LET request == proc[w].request
        IN  request.kind # "" =>
              /\ Decoded(request) /\ ~request.structOK =>
                    /\ proc[w].err = NewInvalidArgument(InvalidFields)
                    /\ RefusedAtParse(proc[w])
              /\ Decoded(request) /\ request.structOK /\ ~request.sasOK =>
                    /\ proc[w].err = NoSas
                    /\ RefusedAtParse(proc[w])
              /\ proc[w].err = NoSas =>
                    Decoded(request) /\ request.structOK /\ ~request.sasOK

\* fields not valid and no credential: the validation error is reported
C19_Witness ==
    /\ proc[Worker].request.method = "POST"
    /\ Decoded(proc[Worker].request)
    /\ ~proc[Worker].request.structOK /\ ~proc[Worker].request.sasOK
    /\ proc[Worker].err = NewInvalidArgument(InvalidFields)
    /\ proc[Worker].status = 400

\* C20: validateVerticalWindow accepts exactly the windows with
\* 0 <= above < 250, 0 <= below < 250 and stepsize >= 0; any other window
\* gets an InvalidArgument (a 400) that names the first parameter out of
\* range, in the order above, below, stepsize.
C20_VerticalWindow ==
    pair.called =>
        LET aboveOk == 0 <= pair.above /\ pair.above < 250
            belowOk == 0 <= pair.below /\ pair.below < 250
            stepsizeOk == pair.stepsize >= 0
        IN  /\ (pair.err = Nil) <=> (aboveOk /\ belowOk /\ stepsizeOk)
            /\ ~aboveOk =>
                  pair.err = NewInvalidArgument("'above' out of range")
            /\ aboveOk /\ ~belowOk =>
                  pair.err = NewInvalidArgument("'below' out of range")
            /\ aboveOk /\ belowOk /\ ~stepsizeOk =>
                  pair.err = NewInvalidArgument("'stepsize' out of range")
            /\ pair.err # Nil => httpStatusCode(pair.err) = 400

\* above is 250 and below and stepsize are negative: 'above' is named
C20_Witness ==
    /\ pair.called
    /\ pair.above = 250 /\ pair.below = -1 /\ pair.stepsize = -1
    /\ pair.err = NewInvalidArgument("'above' out of range")

UnknownDirection(request) ==
    request.kind = "slice" /\ ToLower(request.direction) \notin ValidDirections

\* C21 as stated: every Slice request whose direction, lower-cased, is not a
\* valid direction is answered 400 with the 'invalid direction' message.
C21_UnknownDirectionAlways400 ==
    \A w \in Workers :
        UnknownDirection(proc[w].request) /\ proc[w].pc = "done" =>
            /\ proc[w].status = 400
            /\ proc[w].err = NewInvalidArgument(InvalidDirection)

\* C21, amended: a Slice request whose direction, lower-cased, is not a
\* valid direction never gets a 200; once its handle has been opened it is
\* answered 400 with the 'invalid direction' message that lists the valid
\* options, and when NewDSHandle fails it is answered with that error (500)
\* instead.  A direction that is valid when lower-cased never gets the
\* 'invalid direction' message.
C21_UnknownDirection ==
    \A w \in Workers :
        /\ UnknownDirection(proc[w].request) /\ proc[w].pc = "done" =>
              /\ proc[w].err # Nil /\ proc[w].body = <<>>
              /\ proc[w].handle # "none" =>
                    /\ proc[w].status = 400
                    /\ proc[w].err = NewInvalidArgument(InvalidDirection)
              /\ proc[w].handle = "none" /\ proc[w].conn # NoConn =>
                    /\ proc[w].status = 500
                    /\ proc[w].err = NewInternalError("Could not open VDS")
        /\ proc[w].request.kind = "slice" /\ ~UnknownDirection(proc[w].request)
              => proc[w].err.msg # InvalidDirection

\* the unknown direction was found, on a dataset that could be opened
C21_Witness ==
    /\ UnknownDirection(proc[Worker].request)
    /\ proc[Worker].pc = "done" /\ proc[Worker].handle = "closed"
    /\ proc[Worker].status = 400
    /\ proc[Worker].err = NewInvalidArgument(InvalidDirection)

\* a Fence request with a valid coordinate system and a tuple that is no pair
BadTuple(request) ==
    /\ request.kind = "fence"
    /\ ToLower(request.coordinateSystem) \in ValidCoordinateSystems
    /\ \E i \in DOMAIN request.coordinates : Len(request.coordinates[i]) # 2

\* the InvalidArgument that names the first tuple that is no pair and its
\* position (counted from 0) in the coordinate list
NamesTuple(err, coordinates) ==
    /\ err.kind = "InvalidArgument" /\ err.msg = InvalidCoordinate
    /\ \E i \in DOMAIN coordinates :
          /\ Len(coordinates[i]) # 2
          /\ err.args = <<coordinates[i], i - 1>>

\* C22 as stated: every Fence request with a valid coordinate system and a
\* tuple that is no pair is answered 400 with the message naming the tuple
\* and its index, and no data block.
C22_BadTupleAlways400 ==
    \A w \in Workers :
        BadTuple(proc[w].request) /\ proc[w].pc = "done" =>
            /\ proc[w].status = 400
            /\ NamesTuple(proc[w].err, proc[w].request.coordinates)
            /\ proc[w].body = <<>>

\* C22, amended: a Fence request with a valid coordinate system and a tuple
\* that is no pair never gets a 200 or a data block; when its interpolation
\* is valid and its handle has been opened it is answered 400 with the
\* message naming the tuple and its index; with an invalid interpolation it
\* is answered with that InvalidArgument, and when NewDSHandle fails with
\* that InternalError (500).
C22_BadTuple ==
    \A w \in Workers :
        BadTuple(proc[w].request) /\ proc[w].pc = "done" =>
            /\ proc[w].err # Nil /\ proc[w].body = <<>>
            /\ proc[w].data = <<>> /\ proc[w].sets = 0
            /\ proc[w].handle # "none" =>
                  /\ proc[w].status = 400
                  /\ IF GetInterpolationMethod(proc[w].request.interpolation).err = Nil
                     THEN NamesTuple(proc[w].err, proc[w].request.coordinates)
                     ELSE proc[w].err =
                            NewInvalidArgument("invalid interpolation method")
            /\ proc[w].handle = "none" /\ proc[w].conn # NoConn =>
                  /\ proc[w].status = 500
                  /\ proc[w].err = NewInternalError("Could not open VDS")

\* the third tuple of the list has four components: it is named, with index 2
C22_Witness ==
    /\ BadTuple(proc[Worker].request)
    /\ proc[Worker].pc = "done" /\ proc[Worker].status = 400
    /\ proc[Worker].err.args = << <<2, 1, 3, 4>>, 2 >>
    /\ proc[Worker].body = <<>>

\* the request passes parsing and its variant's validation and can be hashed
PassesValidation(request) ==
    /\ request.kind # ""
    /\ parseRequest(request) = Nil
    /\ MakeVdsConnection(credentials(request)).err = Nil
    /\ request.serializable
    /\ VariantValid(request)

LinenoOutOfRange(request) ==
    request.kind = "slice" /\ request.lineno \notin ValidLinenos

\* NewDSHandle failed in this request
OpenFailed(p) ==
    /\ p.pc = "done" /\ p.handle = "none" /\ ~p.cachehit
    /\ p.conn # NoConn
    /\ p.request.kind # "metadata" => p.cacheKey # NoKey

WithinBudget(c) ==
    /\ CacheSize(c) <= CacheCapacity
    /\ \A i, j \in DOMAIN c : c[i].key = c[j].key => i = j

\* c2 is c1 after Set(key, entry): the least recently used entries are gone,
\* as many as the new entry needs and no more, and the new entry is the
\* most recently used one; an entry larger than the budget is not kept
EvictedByRecency(c1, c2, key, entry) ==
    LET old == CacheRemove(c1, key)
        new == [key |-> key, entry |-> entry]
    IN  IF EntrySize(entry) > CacheCapacity THEN key \notin CacheKeys(c2)
        ELSE \E n \in 0..Len(old) :
                /\ c2 = Append(SubSeq(old, n + 1, Len(old)), new)
                /\ n > 0 => CacheSize(SubSeq(old, n, Len(old)))
                               + EntrySize(entry) > CacheCapacity

C24_SetEvicts ==
    \A w \in Workers :
        proc[w].pc = "set" /\ proc'[w].pc = "done" =>
            EvictedByRecency(cache, cache', proc[w].cacheKey,
                             NewCacheEntry(proc[w].data, proc[w].metadata))

InsertedFor(p) ==
    LET res == execute(p.request, [vds |-> p.conn.vds])
    IN  NewCacheEntry(res.data, res.metadata)

C25_HitConsistent ==
    \A w \in Workers :
        proc[w].hit =>
            /\ proc[w].cacheEntry = InsertedFor(proc[w])
            /\ proc[w].cachehit =>
                  /\ proc[w].status = 200
                  /\ proc[w].body = InsertedFor(proc[w]).metadata
                                       \o InsertedFor(proc[w]).data

C25_OnlySetRemoves ==
    /\ CacheMap(cache') # CacheMap(cache) =>
          \E w \in Workers : proc[w].pc = "set" /\ proc'[w].pc = "done"
    /\ \A w \in Workers :
          proc[w].hit /\ proc'[w].request = proc[w].request =>
              proc'[w].cacheEntry = proc[w].cacheEntry

\* C25: entries are immutable and a hit is consistent.  The entry a request
\* got from Cache.Get stays, until the request ends, the entry as it was
\* inserted for that key, whatever Cache.Set or eviction do to the cache
\* meanwhile, and the parts written on the hit are the metadata and the
\* data blocks of that one entry; the mapping of the cache changes only in
\* a Cache.Set (insert, overwrite, eviction), in no other step.
C25_ImmutableEntries == []C25_HitConsistent /\ [][C25_OnlySetRemoves]_vars

\* the entry was evicted after this request got it from Cache.Get and before
\* it writes its response
C25_Witness ==
    \E a, b \in Workers :
        /\ proc[b].pc = "auth" /\ proc[b].hit
        /\ proc[b].cacheKey \notin CacheKeys(cache)
        /\ proc[b].cacheEntry = InsertedFor(proc[b])
        /\ proc[a].pc = "done" /\ proc[a].sets = 1
        /\ proc[a].cacheKey \in CacheKeys(cache)

\* the requests whose successful execution inserts under this key
SettersOf(key) ==
    { r \in CacheRequests :
        endpoint(r).pc = "get" /\ endpoint(r).cacheKey = key }

C26_KeysDistinct ==
    \A i, j \in DOMAIN cache : cache[i].key = cache[j].key => i = j

C26_EntriesUnderOwnKey ==
    \A i \in DOMAIN cache :
        /\ \E r \in SettersOf(cache[i].key) :
              cache[i].entry = InsertedFor(endpoint(r))
        /\ \A r \in CacheRequests :
              cache[i].entry = InsertedFor(endpoint(r)) =>
                  r \in SettersOf(cache[i].key)

C26_GetReturnsOwnKey ==
    \A w \in Workers :
        proc[w].hit =>
            /\ proc[w].cacheKey = makeCacheKey(proc[w].request).key
            /\ \A r \in CacheRequests :
                  proc[w].cacheEntry = InsertedFor(endpoint(r)) =>
                      r \in SettersOf(proc[w].cacheKey)
            /\ \E r \in SettersOf(proc[w].cacheKey) :
                  proc[w].cacheEntry = InsertedFor(endpoint(r))

\* C26: eviction running among concurrent lookups and inserts never corrupts
\* the mapping.  The cache holds every key once; the entry under a key is
\* the entry requests with exactly that fingerprint insert, and the entry of
\* no request with another fingerprint; and the entry a request got from
\* Cache.Get for its fingerprint is never one inserted under another key.
C26_MappingIntact ==
    C26_KeysDistinct /\ C26_EntriesUnderOwnKey /\ C26_GetReturnsOwnKey

\* a request was served its own entry from the cache, and another request's
\* Set has since evicted that entry to insert one under a different key
C26_Witness ==
    \E a, b \in Workers :
        /\ proc[b].pc = "done" /\ proc[b].cachehit
        /\ proc[b].cacheKey \notin CacheKeys(cache)
        /\ proc[a].pc = "done" /\ proc[a].sets = 1
        /\ proc[a].cacheKey # proc[b].cacheKey
        /\ CacheKeys(cache) = {proc[a].cacheKey}

\* the fields of a request that are text
TextFields == {"kind", "method", "vds", "sas", "interpolation"}

\* what the log line of a request is written from: the string stored under
\* "request" (NoRequest when none was stored), the status and the error
LogOutput(p) == [request |-> p.logged, status |-> p.status, error |-> p.err]

TokenFree(p) ==
    /\ \/ LogOutput(p).request = NoRequest
       \/ \A f \in TextFields : LogOutput(p).request[f] \notin Sas
    /\ LogOutput(p).error.msg \notin Sas

\* the same request sent with another token stores the same string; sent
\* with a token that resolves differently it stores the same string too,
\* unless one of the two is refused before prepareRequestLogging and stores
\* none
SameLoggedText(p) ==
    /\ \A s \in Sas :
          endpoint([p.request EXCEPT !.sas = s]).logged = p.logged
    /\ \A s \in Sas, ok \in BOOLEAN :
          LET other == endpoint([p.request EXCEPT !.sas = s, !.sasOK = ok])
          IN  other.logged = p.logged
                  \/ NoRequest \in {other.logged, p.logged}

\* C27: the credential never reaches the log.  For every request, GET or
\* POST, at every point of its handling and whatever its outcome, no text of
\* the string stored for logging and no error message is the token, and the
\* same request sent with another token stores the same string.
C27_CredentialNotLogged ==
    proc[Worker].pc # "idle" =>
        TokenFree(proc[Worker]) /\ SameLoggedText(proc[Worker])

\* a GET request with a token has stored its string and has ended in an error
C27_Witness ==
    /\ proc[Worker].pc = "done"
    /\ proc[Worker].request.method = "GET"
    /\ proc[Worker].request.sas \in Sas
    /\ proc[Worker].logged # NoRequest
    /\ proc[Worker].logged.sas = ""
    /\ proc[Worker].status = 500
    /\ proc[Worker].err # Nil

\* the goroutines of the middleware that have not finished
Outstanding == Len(metrics.tasks)

\* no step of a metrics goroutine touches a request or the cache, and the
\* middleware returns whatever the goroutines started before are doing
C28_RecordingApart ==
    /\ metrics'.requestCount # metrics.requestCount =>
          proc' = proc /\ cache' = cache
    /\ proc[Worker].pc = "done" /\ proc'[Worker].pc = "idle" =>
          Len(metrics'.tasks) = Len(metrics.tasks) + 1

\* some bound below the number of requests served limits the goroutines
C28_TasksBounded == Outstanding < MaxRequests

\* what holds of the middleware: recording is apart from the requests, and
\* the goroutines outstanding are at most the requests served
FireAndForget ==
    [](Outstanding <= started) /\ [][C28_RecordingApart]_vars

\* C28: metrics recording is fire and forget and bounded.  The response is
\* complete before the goroutine is started and the middleware returns
\* without waiting for it, no step of recording changes a request's status
\* or body, and the number of metrics goroutines outstanding stays below a
\* bound that does not grow with the number of requests served.
C28_FireAndForgetBounded ==
    []C28_TasksBounded /\ [][C28_RecordingApart]_vars

\* the response of p was written from the entry Cache.Get returned
WrittenFromCache(p) ==
    /\ p.pc = "done" /\ p.hit /\ p.authz = "yes"
    /\ p.writes = 1 /\ p.status = 200
    /\ p.body = p.cacheEntry.metadata \o p.cacheEntry.data
    /\ p.handle = "none" /\ p.sets = 0

\* C29: the mark is exact.  "cache-hit" is true in a request exactly when
\* its response was written from the entry of the cache; it is not set in a
\* request that opened a handle and computed, hit refused or not, in a
\* metadata request, or in a request that ended in an error.
C29_CacheHitExact ==
    \A w \in Workers :
        /\ proc[w].cachehit <=> WrittenFromCache(proc[w])
        /\ proc[w].handle # "none" => ~proc[w].cachehit
        /\ proc[w].request.kind = "metadata" => ~proc[w].cachehit
        /\ proc[w].err # Nil => ~proc[w].cachehit

\* one request was served from the cache and is marked, while another, whose
\* hit was refused, has computed and ended unmarked
C29_Witness ==
    \E a, b \in Workers :
        /\ proc[a].cachehit /\ WrittenFromCache(proc[a])
        /\ proc[b].pc = "done" /\ Refused(proc[b])
        /\ proc[b].handle = "closed" /\ ~proc[b].cachehit

\* the error of the last call the handler made in the request of p, when
\* that call failed (NewDSHandle fails when the storage refuses the pair)
LastCallError(p) ==
    IF p.calls.execute = 1
    THEN IF p.request.kind = "metadata" THEN GetMetadata(p.opened).err
         ELSE execute(p.request, p.opened).err
    ELSE IF p.calls.NewDSHandle = 1 THEN NewDSHandle(p.conn, {}).err
    ELSE IF p.calls.hash = 1 THEN makeCacheKey(p.request).err
    ELSE IF p.calls.MakeVdsConnection = 1
    THEN MakeVdsConnection(credentials(p.request)).err
    ELSE parseRequest(p.request)

\* what the caller receives
Response(p) ==
    [status |-> p.status, error |-> p.err.msg, parts |-> p.body]

C30_AtMostOnce(p) ==
    /\ \A f \in DOMAIN p.calls : p.calls[f] <= 1
    /\ p.calls.hash = 1 \/ p.calls.NewDSHandle = 1 =>
          p.calls.MakeVdsConnection = 1
    /\ p.calls.execute = 1 => p.calls.NewDSHandle = 1
    /\ p.aborts <= 1 /\ p.closes <= 1 /\ p.writes <= 1

C30_ReportedOnce(p) ==
    /\ p.err # Nil <=> p.aborts = 1
    /\ p.err # Nil =>
          /\ p.pc = "done"
          /\ p.err = LastCallError(p)
          /\ Response(p) = [status |-> httpStatusCode(p.err),
                            error |-> LastCallError(p).msg, parts |-> <<>>]
          /\ p.writes = 0 /\ p.sets = 0
    /\ p.pc = "done" /\ p.err = Nil =>
          Response(p).status = 200 /\ Response(p).error = ""

\* a request that has failed does nothing more: its context changes only
\* when the handler has returned
C30_ErrorEnds ==
    \A w \in Workers :
        proc[w].err # Nil => proc'[w] \in {proc[w], Idle}

\* C30: every failure is reported once and nothing is retried.  In every
\* request MakeVdsConnection, hash, NewDSHandle and the engine are each
\* called at most once and in this order; an error is the error of the last
\* call made, it is passed to AbortWithError once and ends the request, and
\* the caller receives one response, with the status of that error, its
\* message and no part.
C30_FailureReportedOnce ==
    /\ [](\A w \in Workers :
            C30_AtMostOnce(proc[w]) /\ C30_ReportedOnce(proc[w]))
    /\ [][C30_ErrorEnds]_vars

\* the engine failed after every earlier call succeeded once
C30_Witness ==
    /\ proc[Worker].pc = "done" /\ proc[Worker].err # Nil
    /\ \A f \in DOMAIN NoCalls : proc[Worker].calls[f] = 1
    /\ proc[Worker].aborts = 1 /\ proc[Worker].closes = 1
    /\ proc[Worker].err = execute(proc[Worker].request, proc[Worker].opened).err
    /\ proc[Worker].body = <<>>

\* the state of a request answered by Health
Healthy(p) ==
    /\ p.pc = "done" /\ p.status = 200 /\ p.err = Nil
    /\ p.calls = NoCalls /\ p.handle = "none" /\ p.closes = 0
    /\ ~p.hit /\ p.cacheKey = NoKey /\ p.cacheEntry = NoEntry
    /\ p.sets = 0 /\ ~p.cachehit

C31_HealthStep ==
    \A w \in Workers :
        proc'[w].request.kind = "health" /\ proc[w].pc = "idle" =>
            cache' = cache /\ authorized' = authorized

\* C31: Health answers 200 unconditionally.  A request to the liveness
\* endpoint ends with status 200 whatever the cache holds and whatever the
\* storage account lets read; it makes no connection, opens no handle, and
\* neither looks up nor sets the cache, which its step leaves as it was.
C31_HealthUnconditional ==
    /\ [](\A w \in Workers :
            proc[w].request.kind = "health" => Healthy(proc[w]))
    /\ [][C31_HealthStep]_vars

\* Health answered 200 while the cache held an entry and no credential was
\* let to read
C31_Witness ==
    \E w \in Workers :
        /\ proc[w].request.kind = "health" /\ proc[w].status = 200
        /\ cache # <<>> /\ authorized = {}

\* p is on, or has taken, the path of an authorized hit
AuthorizedHit(p) == p.hit /\ p.authz = "yes"

C32_NothingCalled(p) ==
    /\ p.calls.NewDSHandle = 0 /\ p.calls.execute = 0
    /\ p.handle = "none" /\ p.closes = 0
    /\ p.sets = 0
    /\ p.data = <<>> /\ p.metadata = <<>>

\* the lookup that hits and the authorized write leave every key and entry
C32_HitStep ==
    \A w \in Workers :
        \/ proc[w].pc = "get" /\ proc'[w].hit
        \/ proc[w].pc = "auth" /\ AuthorizedHit(proc'[w])
        => CacheMap(cache') = CacheMap(cache)

\* C32: an authorized hit has no effect beyond the response.  A request
\* whose lookup hit and whose IsAuthorizedToRead() answered true has called
\* neither NewDSHandle nor execute, has no handle and has not called
\* Cache.Set; its lookup and its write leave the keys of the cache and the
\* entry under every key as they were.
C32_HitHasNoSideEffect ==
    /\ [](\A w \in Workers :
            AuthorizedHit(proc[w]) =>
                proc[w].cachehit /\ C32_NothingCalled(proc[w]))
    /\ [][C32_HitStep]_vars

\* an authorized hit was answered while the cache holds the entry it used
C32_Witness ==
    /\ AuthorizedHit(proc[Worker]) /\ proc[Worker].pc = "done"
    /\ proc[Worker].status = 200 /\ proc[Worker].writes = 1
    /\ proc[Worker].cacheKey \in CacheKeys(cache)
    /\ CacheEntryOf(cache, proc[Worker].cacheKey) = proc[Worker].cacheEntry

\* the first error of the token and window validation of a variant's execute
ValidationError(request) ==
    CASE request.kind = "slice" -> sliceAxis(request).err
      [] request.kind = "fence" ->
            IF fenceCoordinateSystem(request).err # Nil
            THEN fenceCoordinateSystem(request).err
            ELSE GetInterpolationMethod(request.interpolation).err
      [] request.kind = "along" ->
            IF validateVerticalWindow(request.above, request.below,
                                      request.stepsize) # Nil
            THEN validateVerticalWindow(request.above, request.below,
                                        request.stepsize)
            ELSE GetInterpolationMethod(request.interpolation).err
      [] request.kind = "between" ->
            GetInterpolationMethod(request.interpolation).err

\* the metadata operation and the data operation of a variant
MetadataOp(request) ==
    CASE request.kind = "slice" -> "GetSliceMetadata"
      [] request.kind = "fence" -> "GetFenceMetadata"
      [] request.kind \in {"along", "between"} -> "GetAttributeMetadata"

DataOp(request) ==
    CASE request.kind = "slice" -> "GetSlice"
      [] request.kind = "fence" -> "GetFence"
      [] request.kind = "along" -> "GetAttributesAlongSurface"
      [] request.kind = "between" -> "GetAttributesBetweenSurfaces"

Executed(p) == p.calls.execute = 1 /\ p.request.kind # "metadata"

C33_Order(p) ==
    /\ p.ops \in { <<>>, <<MetadataOp(p.request)>>,
                    <<MetadataOp(p.request), DataOp(p.request)>> }
    /\ ValidationError(p.request) # Nil =>
          p.ops = <<>> /\ p.err = ValidationError(p.request)
    /\ ValidationError(p.request) = Nil => p.ops # <<>>
    /\ Len(p.ops) < 2 => p.err # Nil /\ p.pc = "done"
    /\ p.err = Nil =>
          /\ p.ops = <<MetadataOp(p.request), DataOp(p.request)>>
          /\ p.metadata # <<>>

\* C33: inside execute, validation precedes the engine and metadata precedes
\* data.  When the direction, the coordinate system, the interpolation
\* method or the vertical window of a request is refused, execute has
\* invoked no operation of the handle and returns that error; otherwise it
\* invokes the metadata operation first, and the data operation only after
\* the metadata operation succeeded; whenever it stops early it returns an
\* error.
C33_ValidationThenMetadataThenData ==
    \A w \in Workers :
        /\ Executed(proc[w]) => C33_Order(proc[w])
        /\ proc[w].calls.execute = 0 => proc[w].ops = <<>>

\* a metadata operation failed and the data operation was not invoked
C33_Witness ==
    /\ Executed(proc[Worker])
    /\ proc[Worker].ops = <<MetadataOp(proc[Worker].request)>>
    /\ proc[Worker].err # Nil
    /\ ValidationError(proc[Worker].request) = Nil

\* the request of p was aborted on the error of MakeVdsConnection
ConnectionFailed(p) ==
    /\ p.err # Nil /\ p.calls.MakeVdsConnection = 1
    /\ p.calls.hash = 0 /\ p.calls.NewDSHandle = 0

\* the request of p was aborted on the error of request.hash()
HashFailed(p) ==
    p.err # Nil /\ p.calls.hash = 1 /\ p.calls.NewDSHandle = 0

C34_Stopped(p) ==
    /\ p.pc = "done" /\ p.status = httpStatusCode(p.err)
    /\ p.gets = 0 /\ ~p.hit /\ p.cacheEntry = NoEntry /\ p.authz = "unasked"
    /\ p.calls.NewDSHandle = 0 /\ p.calls.execute = 0
    /\ p.handle = "none" /\ p.sets = 0 /\ p.writes = 0

C34_StoppedBeforeLookup ==
    \A w \in Workers :
        /\ ConnectionFailed(proc[w]) =>
              /\ proc[w].err = MakeVdsConnection(credentials(proc[w].request)).err
              /\ proc[w].conn = NoConn /\ proc[w].cacheKey = NoKey
              /\ C34_Stopped(proc[w])
        /\ HashFailed(proc[w]) =>
              /\ proc[w].err = makeCacheKey(proc[w].request).err
              /\ proc[w].err.kind = "InternalError" /\ proc[w].status = 500
              /\ proc[w].cacheKey = NoKey
              /\ C34_Stopped(proc[w])
        /\ proc[w].request.kind \notin {"metadata", "health", ""}
              /\ proc[w].pc \notin {"idle", "done"} =>
              /\ MakeVdsConnection(credentials(proc[w].request)).err = Nil
              /\ makeCacheKey(proc[w].request).err = Nil

C34_AbortStep ==
    \A w \in Workers :
        proc[w].pc = "idle" /\ proc'[w].err # Nil => cache' = cache

\* C34: a failure before the lookup stops the pipeline.  A data request
\* whose MakeVdsConnection fails is aborted with that error before hash and
\* before Cache.Get; one whose hash fails is aborted with an InternalError,
\* status 500, before Cache.Get; neither opens a handle, looks the cache up
\* or sets it, and the step that aborts them leaves the cache as it was.  A
\* data request that goes on to the lookup had both calls succeed.
C34_FailureBeforeLookup ==
    []C34_StoppedBeforeLookup /\ [][C34_AbortStep]_vars

\* hash failed on a request whose connection was made, while the cache
\* holds an entry
C34_Witness ==
    /\ HashFailed(proc[Worker])
    /\ proc[Worker].conn # NoConn /\ proc[Worker].status = 500
    /\ cache # <<>>

\* the entry is the output of a successful execution of a request with
\* this fingerprint (the fingerprint is the request in canonical form)
FromSuccessfulExecution(key, entry) ==
    LET res == execute(key, [vds |-> key.vds])
    IN  /\ res.err = Nil
        /\ ValidationError(key) = Nil
        /\ entry = NewCacheEntry(res.data, res.metadata)

\* an entry that is new or changed in the cache was set in this step by a
\* request with that fingerprint whose NewDSHandle and execute succeeded
C35_SetBySuccess ==
    \A i \in DOMAIN cache' :
        \/ cache'[i].key \notin CacheKeys(cache)
        \/ CacheEntryOf(cache, cache'[i].key) # cache'[i].entry
        => \E w \in Workers :
              /\ proc[w].pc = "set" /\ proc'[w].sets = proc[w].sets + 1
              /\ makeCacheKey(proc[w].request).key = cache'[i].key
              /\ proc[w].calls.NewDSHandle = 1 /\ proc[w].handle = "open"
              /\ proc[w].opened.vds = proc[w].request.vds
              /\ proc[w].calls.execute = 1 /\ proc[w].err = Nil
              /\ execute(proc[w].request, proc[w].opened).err = Nil
              /\ cache'[i].entry =
                    NewCacheEntry(
                        execute(proc[w].request, proc[w].opened).data,
                        execute(proc[w].request, proc[w].opened).metadata)

C35_Entries ==
    /\ \A i \in DOMAIN cache :
          FromSuccessfulExecution(cache[i].key, cache[i].entry)
    /\ \A w \in Workers :
          proc[w].hit =>
              /\ ValidationError(proc[w].request) = Nil
              /\ execute(proc[w].request, [vds |-> proc[w].conn.vds]).err = Nil

\* C35: every entry comes from a successful execution.  The cache starts
\* empty; an entry appears or changes under a key only in the Cache.Set of
\* a request with that fingerprint whose NewDSHandle succeeded and whose
\* execute returned without error, and it is that request's output; so
\* every entry held is the output of a successful execution for its key,
\* and a request that fails inside execute never hits.
C35_EntriesFromSuccess == []C35_Entries /\ [][C35_SetBySuccess]_vars

\* a request that fails validation inside execute looked the cache up while
\* it held an entry, missed, and ended in its error
C35_Witness ==
    /\ Executed(proc[Worker]) /\ proc[Worker].pc = "done"
    /\ ValidationError(proc[Worker].request) # Nil
    /\ proc[Worker].err = ValidationError(proc[Worker].request)
    /\ proc[Worker].gets = 1 /\ ~proc[Worker].hit
    /\ cache # <<>>

\* the datasets the parts of an entry were computed from
ComputedFrom(entry) ==
    { (entry.metadata \o entry.data)[i].asked.vds :
        i \in DOMAIN (entry.metadata \o entry.data) }

\* C36: no disclosure across datasets through the cache.  Two data requests
\* for different datasets never have the same cache key, every entry of the
\* cache was computed from the dataset its key names, and a request answered
\* from the cache is answered with an entry computed from the dataset it
\* asked for, which its caller was let to read.
C36_NoCrossDataset ==
    /\ \A a, b \in Workers :
          /\ proc[a].cacheKey # NoKey /\ proc[b].cacheKey # NoKey
          /\ proc[a].request.vds # proc[b].request.vds
          => proc[a].cacheKey # proc[b].cacheKey
    /\ \A i \in DOMAIN cache :
          ComputedFrom(cache[i].entry) = {cache[i].key.vds}
    /\ \A w \in Workers :
          /\ proc[w].hit =>
                ComputedFrom(proc[w].cacheEntry) = {proc[w].request.vds}
          /\ proc[w].status = 200 =>
                /\ ComputedFrom(NewCacheEntry(proc[w].body, <<>>))
                      = {proc[w].request.vds}
                /\ <<proc[w].request.vds, proc[w].request.sas>> \in authorized

\* the cache holds the slice of one dataset, computed for its caller, while
\* the caller of the other dataset, asking for the same slice there, has
\* missed and is answered from its own dataset
C36_Witness ==
    \E a, b \in Workers :
        /\ proc[a].status = 200 /\ proc[a].sets = 1
        /\ proc[a].request.vds = OtherVds
        /\ proc[a].cacheKey \in CacheKeys(cache)
        /\ proc[b].request.vds = "well_known"
        /\ DiffFields(proc[a].request, proc[b].request) = {"vds", "sas"}
        /\ proc[b].gets = 1 /\ ~proc[b].hit
        /\ proc[b].status = 200
        /\ ComputedFrom(NewCacheEntry(proc[b].body, <<>>)) = {"well_known"}

C37_Bypass(p) ==
    /\ p.pc \in {"open", "exec", "done"}
    /\ p.gets = 0 /\ p.sets = 0 /\ p.calls.hash = 0
    /\ ~p.hit /\ ~p.cachehit /\ p.cacheKey = NoKey /\ p.cacheEntry = NoEntry
    /\ p.authz = "unasked"
    /\ p.pc = "done" /\ p.conn # NoConn => p.calls.NewDSHandle = 1
    /\ p.calls.NewDSHandle = 1 => p.conn # NoConn
    /\ p.status = 200 =>
          /\ p.handle = "closed" /\ p.ops = <<"GetMetadata">>
          /\ p.body = GetMetadata(p.opened).value
          /\ p.opened.vds = p.request.vds

C37_MetadataStep ==
    \A w \in Workers :
        /\ proc'[w] # proc[w]
        /\ "metadata" \in {proc[w].request.kind, proc'[w].request.kind}
        => cache' = cache

\* C37: the metadata endpoint bypasses the cache.  A Metadata request, GET
\* or POST, whatever its outcome, computes no key, makes no Cache.Get and no
\* Cache.Set, and each of its steps leaves the cache as it was; once its
\* connection is made it calls NewDSHandle, and its 200 carries what
\* GetMetadata of that handle returned.
C37_MetadataBypassesCache ==
    /\ [](\A w \in Workers :
            proc[w].request.kind = "metadata" => C37_Bypass(proc[w]))
    /\ [][C37_MetadataStep]_vars

\* a GET Metadata request ended with the error of NewDSHandle while the
\* cache held an entry
C37_Witness ==
    /\ proc[Worker].request.kind = "metadata"
    /\ proc[Worker].request.method = "GET"
    /\ proc[Worker].calls.NewDSHandle = 1 /\ proc[Worker].status = 500
    /\ proc[Worker].err.msg = "Could not open VDS"
    /\ proc[Worker].gets = 0
    /\ cache # <<>>

\* the labels the goroutine of a request records are the ones that request
\* had when the middleware started the goroutine
C38_RecordStep ==
    metrics'.requestCount # metrics.requestCount =>
        \E i \in DOMAIN metrics.tasks :
            /\ metrics'.tasks = RemoveAt(metrics.tasks, i)
            /\ metrics'.observed =
                  metrics.observed \cup {metrics.tasks[i].own}

\* C38: metrics attribution under concurrency.  The path, method, status,
\* response size and cache-hit label a metrics goroutine records are those
\* of the request that started it, however the goroutine is interleaved
\* with the return of the middleware and with the requests handled after.
C38_OwnLabelsRecorded == [][C38_RecordStep]_vars

\* the one success response of a request: status 200, no error reported
Succeeded(p) ==
    /\ p.status = 200 /\ p.err = Nil /\ p.aborts = 0
    /\ p.request.kind \notin {"metadata", "health"} => p.writes = 1

\* the one error response of a request: abortOnError once, nothing written
Errored(p) ==
    /\ p.status \in {400, 500} /\ p.err # Nil /\ p.aborts = 1
    /\ p.writes = 0 /\ p.body = <<>>

\* the requests whose middleware has returned
Returned == started - (IF proc[Worker].pc = "idle" THEN 0 ELSE 1)

C39_OneResponse(p) ==
    /\ p.pc = "done" => Succeeded(p) \/ Errored(p)
    /\ p.pc = "done" => ~(Succeeded(p) /\ Errored(p))
    /\ p.pc # "done" => p.status = 0 /\ p.aborts = 0 /\ p.writes = 0
    /\ p.aborts + p.writes <= 1

\* C39: every request terminates with exactly one response.  A request an
\* endpoint has accepted reaches the end of its handler, where it has sent
\* either one success response or one error response, not both and not
\* none; the middleware then returns, one goroutine is started for the
\* request, and every goroutine started eventually increments the request
\* counter, once.
C39_TerminatesWithOneResponse ==
    /\ [](C39_OneResponse(proc[Worker]))
    /\ [](metrics.requestCount + Outstanding = Returned)
    /\ (proc[Worker].pc # "idle") ~> (proc[Worker].pc = "done")
    /\ \A n \in 1..MaxRequests :
          (started >= n) ~> (metrics.requestCount >= n)

\* every request the bound allows has been answered, one of them with a
\* success and one with an error, and the counter has counted them all
C39_Witness ==
    /\ metrics.requestCount = MaxRequests /\ Outstanding = 0
    /\ \E l \in metrics.observed : l.status = 200
    /\ \E l \in metrics.observed : l.status = 500

\* Cache.Get of the request of p has reported a miss
Missed(p) == p.gets = 1 /\ ~p.hit

C40_MissPath(p) ==
    /\ p.authz # "unasked" => p.hit /\ p.gets = 1
    /\ Missed(p) =>
          /\ p.authz = "unasked" /\ p.pc # "auth" /\ ~p.cachehit
          /\ p.pc \in {"exec", "set"} =>
                p.calls.NewDSHandle = 1 /\ p.handle = "open"
          /\ p.status = 200 =>
                /\ p.calls.NewDSHandle = 1 /\ p.handle = "closed"
                /\ p.opened = NewDSHandle(p.conn, {<<p.conn.vds, p.conn.sas>>}).handle
                /\ p.calls.execute = 1 /\ p.writes = 1

C40_MissStep ==
    \A w \in Workers :
        /\ proc'[w].authz # proc[w].authz /\ proc'[w].pc # "idle" =>
              proc[w].pc = "auth" /\ proc[w].hit
        /\ Missed(proc[w]) /\ proc[w].pc = "open" /\ proc'[w] # proc[w] =>
              IF IsAuthorizedToRead(proc[w].conn, authorized)
              THEN proc'[w].pc = "exec" /\ proc'[w].err = Nil
              ELSE /\ proc'[w].pc = "done" /\ proc'[w].status = 500
                   /\ proc'[w].err = NewDSHandle(proc[w].conn, {}).err
                   /\ proc'[w].body = <<>> /\ proc'[w].calls.execute = 0

\* C40: on a cache miss the authorization capability is not consulted.
\* IsAuthorizedToRead() is evaluated only in a request whose Cache.Get
\* reported a hit; a request that missed goes from the lookup to
\* NewDSHandle, and it computes and discloses only if NewDSHandle
\* succeeded: where the storage refuses the pair the request ends in the
\* error of NewDSHandle with no part written.
C40_MissSkipsAuthorization ==
    /\ [](\A w \in Workers : C40_MissPath(proc[w]))
    /\ [][C40_MissStep]_vars

\* a request that missed was refused by NewDSHandle after a revocation,
\* the capability never having been asked
C40_Witness ==
    /\ Missed(proc[Worker]) /\ proc[Worker].pc = "done"
    /\ proc[Worker].authz = "unasked"
    /\ proc[Worker].calls.NewDSHandle = 1
    /\ proc[Worker].status = 500 /\ proc[Worker].body = <<>>
    /\ proc[Worker].request.vds \in ExistingVds
    /\ cache # <<>>

====
